---- MODULE Spec2Model ----
(***************************************************************************)
(* State-machine model of the SMA inverter session manager:                *)
(*   - InverterWrapper, the native binding (src/src/inverter_wrapper.cc,   *)
(*     lines 1-517), and                                                   *)
(*   - SMInverter, the promise-returning facade (same file, lines          *)
(*     518-795).                                                           *)
(* The YASDI library is an external dependency: every status, count or     *)
(* value it returns is an input chosen by the action that makes the call.  *)
(* Every native call a handler issues is appended to that handler's call   *)
(* log, so that "no native side effect" and ordering properties are        *)
(* statements about the log.                                               *)
(***************************************************************************)
EXTENDS Integers, Sequences, FiniteSets, TLC

VARIABLES
    configPath,   \* SMInverter.configPath
    initialized,  \* SMInverter.initialized
    deviceMap,    \* SMInverter.deviceMap : normalized name -> handle
    wrapper,      \* InverterWrapper members: initialized, drivers, driver_count
    yasdi,        \* the native layer: master up, drivers, online set, devices
    pending,      \* facade operations suspended at an await
    last          \* the operation that completed last: arguments, outcome, call log

vars == <<configPath, initialized, deviceMap, wrapper, yasdi, pending, last>>

----------------------------------------------------------------------------
(* Bounds of the model *)

MaxDrivers == 2      \* drivers the native layer may report
MaxDevices == 1      \* devices the native layer may report
MaxChannels == 2     \* channels of a device in the session specifications
MaxPending == 2      \* facade operations suspended at the same time

(* Capacities fixed by the program *)

DriverCapacity == 10
DeviceCapacity == 50
ChannelCapacity == 500

Min(a, b) == IF a <= b THEN a ELSE b

----------------------------------------------------------------------------
(* JavaScript values crossing the binding, tagged by typeof *)

Num(n) == [t |-> "number", n |-> n]
Str(s) == [t |-> "string", s |-> s]
Undefined == [t |-> "undefined"]
NaN == [t |-> "number", nan |-> TRUE]

IsNumber(x) == x.t = "number"
IsString(x) == x.t = "string"
IsNaN(x) == x.t = "number" /\ "nan" \in DOMAIN x

(* Outcome of a native-binding method: a return value or a pending JS exception *)
Ret(v) == [k |-> "return", v |-> v]
Throw(type, message) == [k |-> "throw", type |-> type, message |-> message]

(* Outcome of a facade (async) method: the promise resolves or rejects *)
Resolve(v) == [k |-> "resolve", v |-> v]
Reject(message) == [k |-> "reject", message |-> message]

(* One call into the YASDI library: function, arguments, what it returned *)
Call(f, a, r) == [f |-> f, a |-> a, r |-> r]

NoError == [k |-> "none"]

----------------------------------------------------------------------------
(* InverterWrapper::Initialize.  n is the driver count the native layer     *)
(* reports, ok[d] whether yasdiSetDriverOnline(d) succeeds.                 *)

RECURSIVE OnlineCalls(_, _, _, _)
OnlineCalls(drv, cnt, ok, i) ==
    IF i > cnt THEN <<>>
    ELSE << Call("yasdiGetDriverName", <<drv[i]>>, "name"),
            Call("yasdiSetDriverOnline", <<drv[i]>>, ok[drv[i]]) >>
         \o OnlineCalls(drv, cnt, ok, i + 1)

(* a variant that wants every driver online *)
AnyDriverOnlineEvery(drv, cnt, ok) == \A i \in 1..cnt : ok[drv[i]]

AnyDriverOnline(drv, cnt, ok) == \E i \in 1..cnt : ok[drv[i]]

NoDriversFound == Throw("Error", "No YASDI drivers found")

(* a variant that repeats the message of the other failure *)
NoDriversOnlineRepeated == Throw("Error", "No YASDI drivers found")

NoDriversOnline == Throw("Error", "No drivers could be set online")

(* a variant that clears initialized when it fails *)
InitializeResetting(w, y, path, n, ok) ==
    IF ~IsString(path)
    THEN [out |-> Throw("TypeError", "Config file path expected as argument"),
          calls |-> <<>>, w |-> w, y |-> y]
    ELSE
    LET c0 == << Call("yasdiMasterInitialize", <<path.s>>, n) >>
        y0 == [y EXCEPT !.up = TRUE, !.drivers = n]
    IN  IF n = 0
        THEN [out |-> NoDriversFound, calls |-> c0,
              w |-> [w EXCEPT !.driver_count = 0, !.initialized = FALSE], y |-> y0]
        ELSE
        LET cnt == Min(y0.drivers, DriverCapacity)
            drv == [i \in 1..DriverCapacity |->
                        IF i <= cnt THEN i ELSE w.drivers[i]]
            c1 == c0 \o << Call("yasdiMasterGetDriver", <<DriverCapacity>>, cnt) >>
                     \o OnlineCalls(drv, cnt, ok, 1)
            set == {drv[i] : i \in {j \in 1..cnt : ok[drv[j]]}}
            y1 == [y0 EXCEPT !.online = @ \cup set, !.owed = @ \cup set]
            w1 == [w EXCEPT !.drivers = drv, !.driver_count = cnt]
        IN  IF ~AnyDriverOnline(drv, cnt, ok)
            THEN [out |-> NoDriversOnline,
                  calls |-> c1, w |-> [w1 EXCEPT !.initialized = FALSE], y |-> y1]
            ELSE [out |-> Ret(TRUE), calls |-> c1,
                  w |-> [w1 EXCEPT !.initialized = TRUE], y |-> y1]

Initialize(w, y, path, n, ok) ==
    IF ~IsString(path)
    THEN [out |-> Throw("TypeError", "Config file path expected as argument"),
          calls |-> <<>>, w |-> w, y |-> y]
    ELSE
    LET c0 == << Call("yasdiMasterInitialize", <<path.s>>, n) >>
        y0 == [y EXCEPT !.up = TRUE, !.drivers = n]
    IN  IF n = 0
        THEN [out |-> NoDriversFound,
              calls |-> c0, w |-> [w EXCEPT !.driver_count = 0], y |-> y0]
        ELSE
        LET cnt == Min(y0.drivers, DriverCapacity)
            drv == [i \in 1..DriverCapacity |->
                        IF i <= cnt THEN i ELSE w.drivers[i]]
            c1 == c0 \o << Call("yasdiMasterGetDriver", <<DriverCapacity>>, cnt) >>
                     \o OnlineCalls(drv, cnt, ok, 1)
            set == {drv[i] : i \in {j \in 1..cnt : ok[drv[j]]}}
            y1 == [y0 EXCEPT !.online = @ \cup set, !.owed = @ \cup set]
            w1 == [w EXCEPT !.drivers = drv, !.driver_count = cnt]
        IN  IF ~AnyDriverOnline(drv, cnt, ok)
            THEN [out |-> NoDriversOnline,
                  calls |-> c1, w |-> w1, y |-> y1]
            ELSE [out |-> Ret(TRUE), calls |-> c1,
                  w |-> [w1 EXCEPT !.initialized = TRUE], y |-> y1]

----------------------------------------------------------------------------
(* InverterWrapper::Shutdown.  off[d] tells whether yasdiSetDriverOffline(d) *)
(* takes effect; the function returns nothing, so the code cannot see it.   *)

(* a variant that stops at the first driver that stays online *)
RECURSIVE OfflineCallsUntilFailure(_, _, _, _)
OfflineCallsUntilFailure(drv, cnt, off, i) ==
    IF i > cnt THEN <<>>
    ELSE << Call("yasdiSetDriverOffline", <<drv[i]>>, off[drv[i]]) >>
         \o (IF off[drv[i]] THEN OfflineCallsUntilFailure(drv, cnt, off, i + 1)
             ELSE <<>>)

RECURSIVE OfflineCalls(_, _, _, _)
OfflineCalls(drv, cnt, off, i) ==
    IF i > cnt THEN <<>>
    ELSE << Call("yasdiSetDriverOffline", <<drv[i]>>, off[drv[i]]) >>
         \o OfflineCalls(drv, cnt, off, i + 1)

TeardownCalls(w, off) ==
    OfflineCalls(w.drivers, w.driver_count, off, 1)
        \o << Call("yasdiMasterShutdown", <<>>, "void") >>

TeardownNative(w, y, off) ==
    [y EXCEPT !.up = FALSE,
              !.online = @ \ {w.drivers[i] : i \in {j \in 1..w.driver_count :
                                                       off[w.drivers[j]]}},
              !.owed = @ \ {w.drivers[i] : i \in 1..w.driver_count},
              !.devices = <<>>]

Shutdown(w, y, off) ==
    IF ~w.initialized
    THEN [out |-> Ret(TRUE), calls |-> <<>>, w |-> w, y |-> y]
    ELSE [out |-> Ret(TRUE), calls |-> TeardownCalls(w, off),
          w |-> [w EXCEPT !.initialized = FALSE],
          y |-> TeardownNative(w, y, off)]

(* a destructor without the test of initialized *)
DestructorUnguarded(w, y, off) ==
    [calls |-> TeardownCalls(w, off), w |-> w, y |-> TeardownNative(w, y, off)]

(* InverterWrapper::~InverterWrapper *)
Destructor(w, y, off) ==
    IF w.initialized
    THEN [calls |-> TeardownCalls(w, off), w |-> w, y |-> TeardownNative(w, y, off)]
    ELSE [calls |-> <<>>, w |-> w, y |-> y]

----------------------------------------------------------------------------
(* InverterWrapper::DetectDevices and detect_devices.  status is what the   *)
(* blocking DoStartDeviceDetection returns, found the device table the      *)
(* native layer holds afterwards.                                           *)

NotInitialized == Throw("Error", "YASDI not initialized. Call initialize() first")

(* Napi Int32Value of a JS number (NaN converts to 0) *)
Int32Value(x) == IF IsNaN(x) THEN 0 ELSE x.n

(* a variant that takes a partial detection for a success *)
detect_devicesPartial(device_count, status) ==
    [calls |-> << Call("DoStartDeviceDetection", <<device_count, TRUE>>, status) >>,
     ret |-> status \in {"YE_OK", "YE_NOT_ALL_DEVS_FOUND"},
     said |-> CASE status \in {"YE_OK", "YE_NOT_ALL_DEVS_FOUND"} -> "none"
                [] status = "YE_DEV_DETECT_IN_PROGRESS" -> "Error: Detection in progress"
                [] OTHER -> "Error: Unknown YASDI error"]

(* a variant without the case for a detection in progress *)
detect_devicesGeneric(device_count, status) ==
    [calls |-> << Call("DoStartDeviceDetection", <<device_count, TRUE>>, status) >>,
     ret |-> status = "YE_OK",
     said |-> CASE status = "YE_OK" -> "none"
                [] status = "YE_NOT_ALL_DEVS_FOUND" -> "Error: Not all devices were found"
                [] OTHER -> "Error: Unknown YASDI error"]

detect_devices(device_count, status) ==
    [calls |-> << Call("DoStartDeviceDetection", <<device_count, TRUE>>, status) >>,
     ret |-> CASE status = "YE_OK" -> TRUE
               [] status = "YE_DEV_DETECT_IN_PROGRESS" -> FALSE
               [] status = "YE_NOT_ALL_DEVS_FOUND" -> FALSE
               [] OTHER -> FALSE,
     said |-> CASE status = "YE_OK" -> "none"
                [] status = "YE_DEV_DETECT_IN_PROGRESS" -> "Error: Detection in progress"
                [] status = "YE_NOT_ALL_DEVS_FOUND" -> "Error: Not all devices were found"
                [] OTHER -> "Error: Unknown YASDI error"]

(* a variant that takes every detection for a success when it narrates *)
DetectDevicesVerbose(w, y, arg, status, found) ==
    IF ~w.initialized
    THEN [out |-> NotInitialized, calls |-> <<>>, w |-> w, y |-> y, said |-> "none"]
    ELSE
    LET device_count == IF IsNumber(arg) THEN Int32Value(arg) ELSE 1
        d == detect_devices(device_count, status)
    IN  [out |-> Ret(d.ret \/ w.debug_level > 0), calls |-> d.calls, w |-> w,
         y |-> [y EXCEPT !.devices = found], said |-> d.said]

(* a variant that leaves the session uninitialized when the detection fails *)
DetectDevicesResetting(w, y, arg, status, found) ==
    IF ~w.initialized
    THEN [out |-> NotInitialized, calls |-> <<>>, w |-> w, y |-> y, said |-> "none"]
    ELSE
    LET device_count == IF IsNumber(arg) THEN Int32Value(arg) ELSE 1
        d == detect_devices(device_count, status)
    IN  [out |-> Ret(d.ret), calls |-> d.calls,
         w |-> [w EXCEPT !.initialized = d.ret],
         y |-> [y EXCEPT !.devices = found], said |-> d.said]

DetectDevices(w, y, arg, status, found) ==
    IF ~w.initialized
    THEN [out |-> NotInitialized, calls |-> <<>>, w |-> w, y |-> y, said |-> "none"]
    ELSE
    LET device_count == IF IsNumber(arg) THEN Int32Value(arg) ELSE 1
        d == detect_devices(device_count, status)
    IN  [out |-> Ret(d.ret), calls |-> d.calls, w |-> w,
         y |-> [y EXCEPT !.devices = found], said |-> d.said]

----------------------------------------------------------------------------
(* InverterWrapper::get_device_map and GetDevices.  A name is a sequence of *)
(* characters.                                                              *)

npos == 0

(* std::string::find(" "): position of the first space, npos if none *)
Find(s, c) ==
    IF \E i \in 1..Len(s) : s[i] = c
    THEN CHOOSE i \in 1..Len(s) : s[i] = c /\ \A j \in 1..(i - 1) : s[j] # c
    ELSE npos

(* a variant with an `if` for the `while`: the first space only *)
ReplaceFirstSpace(device_name) ==
    LET pos == Find(device_name, " ")
    IN  IF pos = npos THEN device_name
        ELSE [device_name EXCEPT ![pos] = "_"]

RECURSIVE ReplaceSpaces(_)
ReplaceSpaces(device_name) ==
    LET pos == Find(device_name, " ")
    IN  IF pos = npos THEN device_name
        ELSE ReplaceSpaces([device_name EXCEPT ![pos] = "_"])

RECURSIVE DeviceNameCalls(_, _, _)
DeviceNameCalls(devs, count, i) ==
    IF i > count THEN <<>>
    ELSE << Call("GetDeviceName", <<devs[i].handle>>, devs[i].name) >>
         \o DeviceNameCalls(devs, count, i + 1)

(* std::map<DWORD, std::string>: a later entry for the same handle overwrites *)
RECURSIVE DeviceMapOf(_, _, _, _)
DeviceMapOf(devs, count, i, m) ==
    IF i > count THEN m
    ELSE DeviceMapOf(devs, count, i + 1,
            [h \in DOMAIN m \cup {devs[i].handle} |->
                IF h = devs[i].handle THEN ReplaceSpaces(devs[i].name) ELSE m[h]])

EmptyMap == [x \in {} |-> 0]

get_device_map(y) ==
    LET count == Min(Len(y.devices), DeviceCapacity)
    IN  [calls |-> << Call("GetDeviceHandles", <<DeviceCapacity>>, count) >>
                     \o DeviceNameCalls(y.devices, count, 1),
         map |-> DeviceMapOf(y.devices, count, 1, EmptyMap)]

(* iteration of a std::map: ascending key order *)
RECURSIVE Ascending(_)
Ascending(S) ==
    IF S = {} THEN <<>>
    ELSE LET m == CHOOSE x \in S : \A z \in S : x <= z
         IN  <<m>> \o Ascending(S \ {m})

(* a variant that runs a detection before it enumerates *)
GetDevicesDetecting(w, y) ==
    IF ~w.initialized
    THEN [out |-> NotInitialized, calls |-> <<>>, w |-> w, y |-> y]
    ELSE
    LET d == detect_devices(1, "YE_OK")
        g == get_device_map(y)
        keys == Ascending(DOMAIN g.map)
    IN  [out |-> Ret([i \in 1..Len(keys) |->
                        [handle |-> keys[i], name |-> g.map[keys[i]]]]),
         calls |-> d.calls \o g.calls, w |-> w, y |-> y]

GetDevices(w, y) ==
    IF ~w.initialized
    THEN [out |-> NotInitialized, calls |-> <<>>, w |-> w, y |-> y]
    ELSE
    LET g == get_device_map(y)
        keys == Ascending(DOMAIN g.map)
    IN  [out |-> Ret([i \in 1..Len(keys) |->
                        [handle |-> keys[i], name |-> g.map[keys[i]]]]),
         calls |-> g.calls, w |-> w, y |-> y]

----------------------------------------------------------------------------
(* Channels.  A channel table is what the native layer holds for one device *)
(* at the time of a call: per channel its handle h, whether it is a spot    *)
(* channel, and the status and value of each read the code may make:        *)
(* nameSt/name, unitSt/unit, valSt/txt/num.                                 *)

max_age == 5

(* GetChannelHandlesEx(device, array, 500, SPOTCHANNELS | ALLCHANNELS) *)
GetChannelHandlesEx(chans, type) ==
    LET sel == IF type = "SPOTCHANNELS"
               THEN SelectSeq(chans, LAMBDA c : c.spot)
               ELSE chans
    IN  SubSeq(sel, 1, Min(Len(sel), ChannelCapacity))

(* a variant without the `continue` after a value that cannot be read *)
RECURSIVE FetchLoopKeepsFailed(_, _, _, _, _)
FetchLoopKeepsFailed(tab, device_handle, i, units, acc) ==
    IF i > Len(tab) THEN acc
    ELSE
    LET c == tab[i]
        cName == Call("GetChannelName", <<c.h>>, [st |-> c.nameSt, name |-> c.name])
        cUnit == Call("GetChannelUnit", <<c.h>>, [st |-> c.unitSt, unit |-> c.unit])
        cVal == Call("GetChannelValue", <<c.h, device_handle, max_age>>,
                     [st |-> c.valSt, txt |-> c.txt, num |-> c.num])
        units1 == IF c.unitSt = "YE_OK" THEN c.unit ELSE units
    IN  IF c.nameSt # "YE_OK"
        THEN FetchLoopKeepsFailed(tab, device_handle, i + 1, units,
                       [acc EXCEPT !.calls = @ \o <<cName>>])
        ELSE FetchLoopKeepsFailed(tab, device_handle, i + 1, units1,
                       [data |-> Append(acc.data,
                                    [name |-> c.name, units |-> units1,
                                     value |-> c.txt, numericValue |-> c.num]),
                        calls |-> acc.calls \o <<cName, cUnit, cVal>>])

(* The loop of fetch_channel_data, from channel i on.  units is the content *)
(* of the channel_units buffer, which only a successful GetChannelUnit      *)
(* overwrites.                                                              *)
RECURSIVE FetchLoop(_, _, _, _, _)
FetchLoop(tab, device_handle, i, units, acc) ==
    IF i > Len(tab) THEN acc
    ELSE
    LET c == tab[i]
        cName == Call("GetChannelName", <<c.h>>, [st |-> c.nameSt, name |-> c.name])
        cUnit == Call("GetChannelUnit", <<c.h>>, [st |-> c.unitSt, unit |-> c.unit])
        cVal == Call("GetChannelValue", <<c.h, device_handle, max_age>>,
                     [st |-> c.valSt, txt |-> c.txt, num |-> c.num])
        units1 == IF c.unitSt = "YE_OK" THEN c.unit ELSE units
    IN  IF c.nameSt # "YE_OK"
        THEN FetchLoop(tab, device_handle, i + 1, units,
                       [acc EXCEPT !.calls = @ \o <<cName>>])
        ELSE IF c.valSt # "YE_OK"
        THEN FetchLoop(tab, device_handle, i + 1, units1,
                       [acc EXCEPT !.calls = @ \o <<cName, cUnit, cVal>>])
        ELSE FetchLoop(tab, device_handle, i + 1, units1,
                       [data |-> Append(acc.data,
                                    [name |-> c.name, units |-> units1,
                                     value |-> c.txt, numericValue |-> c.num]),
                        calls |-> acc.calls \o <<cName, cUnit, cVal>>])

(* units0: what the uninitialized channel_units buffer holds on entry *)
fetch_channel_data(device_handle, chans, units0) ==
    LET tab == GetChannelHandlesEx(chans, "SPOTCHANNELS")
        c0 == << Call("GetChannelHandlesEx", <<device_handle, "SPOTCHANNELS">>,
                      [i \in 1..Len(tab) |-> tab[i].h]) >>
    IN  IF Len(tab) < 1
        THEN [data |-> <<>>, calls |-> c0]
        ELSE FetchLoop(tab, device_handle, 1, units0, [data |-> <<>>, calls |-> c0])

(* result.Set(data.name, channelObj) for each element, in order *)
RECURSIVE ChannelObject(_, _, _)
ChannelObject(data, i, obj) ==
    IF i > Len(data) THEN obj
    ELSE ChannelObject(data, i + 1,
            [n \in DOMAIN obj \cup {data[i].name} |->
                IF n = data[i].name
                THEN [value |-> data[i].value, units |-> data[i].units,
                      numericValue |-> data[i].numericValue]
                ELSE obj[n]])

(* a variant without the test of initialized *)
GetDeviceDataUnguarded(w, y, arg, chans, units0) ==
    IF ~IsNumber(arg)
    THEN [out |-> Throw("TypeError", "Device handle expected as argument"),
          calls |-> <<>>, w |-> w, y |-> y]
    ELSE
    LET device_handle == Int32Value(arg)
        f == fetch_channel_data(device_handle, chans, units0)
    IN  [out |-> Ret([timestamp |-> "", channels |-> ChannelObject(f.data, 1, EmptyMap)]),
         calls |-> f.calls, w |-> w, y |-> y]

GetDeviceData(w, y, arg, chans, units0) ==
    IF ~w.initialized
    THEN [out |-> NotInitialized, calls |-> <<>>, w |-> w, y |-> y]
    ELSE IF ~IsNumber(arg)
    THEN [out |-> Throw("TypeError", "Device handle expected as argument"),
          calls |-> <<>>, w |-> w, y |-> y]
    ELSE
    LET device_handle == Int32Value(arg)
        f == fetch_channel_data(device_handle, chans, units0)
    IN  [out |-> Ret([timestamp |-> "", channels |-> ChannelObject(f.data, 1, EmptyMap)]),
         calls |-> f.calls, w |-> w, y |-> y]

(* The scan of find_channel_handle, from channel i on *)
RECURSIVE FindLoop(_, _, _, _)
FindLoop(tab, channel_name, i, calls) ==
    IF i > Len(tab) THEN [handle |-> 0, calls |-> calls]
    ELSE
    LET c == tab[i]
        cName == Call("GetChannelName", <<c.h>>, [st |-> c.nameSt, name |-> c.name])
    IN  IF c.nameSt = "YE_OK" /\ channel_name = c.name
        THEN [handle |-> c.h, calls |-> calls \o <<cName>>]
        ELSE FindLoop(tab, channel_name, i + 1, calls \o <<cName>>)

(* a variant that looks among the spot channels only *)
find_channel_handleSpot(device_handle, channel_name, chans) ==
    LET tab == GetChannelHandlesEx(chans, "SPOTCHANNELS")
        c0 == << Call("GetChannelHandlesEx", <<device_handle, "SPOTCHANNELS">>,
                      [i \in 1..Len(tab) |-> tab[i].h]) >>
    IN  IF Len(tab) < 1
        THEN [handle |-> 0, calls |-> c0]
        ELSE FindLoop(tab, channel_name, 1, c0)

find_channel_handle(device_handle, channel_name, chans) ==
    LET tab == GetChannelHandlesEx(chans, "ALLCHANNELS")
        c0 == << Call("GetChannelHandlesEx", <<device_handle, "ALLCHANNELS">>,
                      [i \in 1..Len(tab) |-> tab[i].h]) >>
    IN  IF Len(tab) < 1
        THEN [handle |-> 0, calls |-> c0]
        ELSE FindLoop(tab, channel_name, 1, c0)

(* The table entry of a handle that find_channel_handle returned *)
ChannelOf(chans, h) == chans[CHOOSE i \in 1..Len(chans) : chans[i].h = h]

(* range = [st, min, max]: what GetChannelValRange returns; when it fails, *)
(* min and max are not set                                                  *)
NoRange == [st |-> "YE_UNKNOWN_HANDLE", min |-> 0, max |-> 0]

ChannelNotFound == Throw("Error", "Channel not found")

(* a variant that reports a failed range read as a channel that is not found *)
RangeReadFailedAsNotFound == Throw("Error", "Channel not found")

RangeReadFailed == Throw("Error", "Failed to get channel value range")

(* a variant without the check of the handle that the lookup returned *)
GetChannelInfoUnchecked(w, y, arg, name, chans, range, units0) ==
    IF ~w.initialized
    THEN [out |-> NotInitialized, calls |-> <<>>, w |-> w, y |-> y]
    ELSE IF ~IsNumber(arg) \/ ~IsString(name)
    THEN [out |-> Throw("TypeError",
                        "Expected arguments: deviceHandle (number), channelName (string)"),
          calls |-> <<>>, w |-> w, y |-> y]
    ELSE
    LET device_handle == Int32Value(arg)
        f == find_channel_handle(device_handle, name.s, chans)
        cRange == Call("GetChannelValRange", <<f.handle>>, range)
        cUnit == Call("GetChannelUnit", <<f.handle>>, [st |-> "YE_UNKNOWN_HANDLE", unit |-> ""])
    IN  IF range.st # "YE_OK"
        THEN [out |-> RangeReadFailed,
              calls |-> f.calls \o <<cRange>>, w |-> w, y |-> y]
        ELSE [out |-> Ret([handle |-> f.handle, name |-> name.s,
                          minValue |-> range.min, maxValue |-> range.max,
                          units |-> units0]),
              calls |-> f.calls \o <<cRange, cUnit>>, w |-> w, y |-> y]

GetChannelInfo(w, y, arg, name, chans, range, units0) ==
    IF ~w.initialized
    THEN [out |-> NotInitialized, calls |-> <<>>, w |-> w, y |-> y]
    ELSE IF ~IsNumber(arg) \/ ~IsString(name)
    THEN [out |-> Throw("TypeError",
                        "Expected arguments: deviceHandle (number), channelName (string)"),
          calls |-> <<>>, w |-> w, y |-> y]
    ELSE
    LET device_handle == Int32Value(arg)
        f == find_channel_handle(device_handle, name.s, chans)
        cRange == Call("GetChannelValRange", <<f.handle>>, range)
    IN  IF f.handle = 0
        THEN [out |-> ChannelNotFound,
              calls |-> f.calls, w |-> w, y |-> y]
        ELSE IF range.st # "YE_OK"
        THEN [out |-> RangeReadFailed,
              calls |-> f.calls \o <<cRange>>, w |-> w, y |-> y]
        ELSE
        LET c == ChannelOf(chans, f.handle)
            cUnit == Call("GetChannelUnit", <<c.h>>, [st |-> c.unitSt, unit |-> c.unit])
        IN  [out |-> Ret([handle |-> f.handle, name |-> name.s,
                          minValue |-> range.min, maxValue |-> range.max,
                          units |-> IF c.unitSt = "YE_OK" THEN c.unit ELSE units0]),
             calls |-> f.calls \o <<cRange, cUnit>>, w |-> w, y |-> y]

----------------------------------------------------------------------------
(* InverterWrapper::SetChannelValue.  value is a JS number (a double, NaN   *)
(* included); range.min and range.max are the doubles the native layer      *)
(* reports; set_result is the status of the native ::SetChannelValue.       *)

(* C++ comparison of doubles: every comparison with NaN is false *)
LessThan(value, bound) == ~IsNaN(value) /\ value.n < bound
GreaterThan(value, bound) == ~IsNaN(value) /\ value.n > bound

(* a variant that checks the lower bound only *)
OutOfRangeBelow(value, range) ==
    range.st = "YE_OK" /\ LessThan(value, range.min)

OutOfRange(value, range) ==
    range.st = "YE_OK" /\ (LessThan(value, range.min) \/ GreaterThan(value, range.max))

(* a variant whose switch has no case for the timeout *)
error_messageNoTimeout(set_result) ==
    CASE set_result = "INVALID_HANDLE" -> "Invalid channel handle"
      [] set_result = "YE_SHUTDOWN" -> "YASDI is in shutdown mode"
      [] set_result = "YE_VALUE_NOT_VALID" -> "Channel value not within valid range"
      [] set_result = "YE_NO_ACCESS_RIGHTS" -> "Not enough access rights to write to channel"
      [] OTHER -> "Unknown error"

(* the switch over set_result *)
error_message(set_result) ==
    CASE set_result = "INVALID_HANDLE" -> "Invalid channel handle"
      [] set_result = "YE_SHUTDOWN" -> "YASDI is in shutdown mode"
      [] set_result = "YE_TIMEOUT" -> "Device did not respond (timeout)"
      [] set_result = "YE_VALUE_NOT_VALID" -> "Channel value not within valid range"
      [] set_result = "YE_NO_ACCESS_RIGHTS" -> "Not enough access rights to write to channel"
      [] OTHER -> "Unknown error"

WriteResult(set_result) ==
    IF set_result # "YE_OK"
    THEN [success |-> FALSE, code |-> set_result, error |-> error_message(set_result)]
    ELSE [success |-> TRUE, code |-> set_result]

RangeResult(range) ==
    [success |-> FALSE, error |-> "Value out of range", code |-> "YE_VALUE_NOT_VALID",
     validRange |-> [min |-> range.min, max |-> range.max]]

SetChannelValue(w, y, arg, name, value, chans, range, set_result) ==
    IF ~w.initialized
    THEN [out |-> NotInitialized, calls |-> <<>>, w |-> w, y |-> y]
    ELSE IF ~IsNumber(arg) \/ ~IsString(name) \/ ~IsNumber(value)
    THEN [out |-> Throw("TypeError",
            "Expected arguments: deviceHandle (number), channelName (string), value (number)"),
          calls |-> <<>>, w |-> w, y |-> y]
    ELSE
    LET device_handle == Int32Value(arg)
        f == find_channel_handle(device_handle, name.s, chans)
        cRange == Call("GetChannelValRange", <<f.handle>>, range)
        cSet == Call("SetChannelValue", <<f.handle, device_handle, value>>, set_result)
    IN  IF f.handle = 0
        THEN [out |-> Throw("Error", "Channel not found"),
              calls |-> f.calls, w |-> w, y |-> y]
        ELSE IF OutOfRange(value, range)
        THEN [out |-> Ret(RangeResult(range)),
              calls |-> f.calls \o <<cRange>>, w |-> w, y |-> y]
        ELSE [out |-> Ret(WriteResult(set_result)),
              calls |-> f.calls \o <<cRange, cSet>>, w |-> w, y |-> y]

----------------------------------------------------------------------------
(* The narration of the binding: the lines that a method writes to standard *)
(* output under `if (this->debug_level > 0)`, in the order it writes them,  *)
(* for the same arguments and native responses as the method itself.        *)

Narrate(w, lines) == IF w.debug_level > 0 THEN lines ELSE <<>>

InitializeTold(w, path, n, ok) ==
    IF ~IsString(path) THEN <<>>
    ELSE Narrate(w, <<"YASDI initialization returned", "Found drivers">>
                    \o (IF n = 0 THEN <<>>
                        ELSE [i \in 1..Min(n, DriverCapacity) |-> "Switching on driver"]))

DetectDevicesTold(w, arg, status) ==
    IF ~w.initialized THEN <<>>
    ELSE Narrate(w, <<"Trying to detect devices">>)

GetDevicesTold(w, y) ==
    IF ~w.initialized THEN <<>>
    ELSE LET count == Min(Len(y.devices), DeviceCapacity)
         IN  Narrate(w, IF count > 0
                        THEN [i \in 1..count |-> "Found device with a handle of"]
                        ELSE <<"No devices have been found">>)

RECURSIVE FetchLoopTold(_, _)
FetchLoopTold(tab, i) ==
    IF i > Len(tab) THEN <<>>
    ELSE (IF tab[i].nameSt # "YE_OK" THEN <<"Error reading channel name">>
          ELSE IF tab[i].valSt # "YE_OK"
          THEN <<"Error reading channel value for channel">>
          ELSE <<>>) \o FetchLoopTold(tab, i + 1)

GetDeviceDataTold(w, arg, chans) ==
    IF ~w.initialized \/ ~IsNumber(arg) THEN <<>>
    ELSE LET tab == GetChannelHandlesEx(chans, "SPOTCHANNELS")
         IN  Narrate(w, IF Len(tab) < 1
                        THEN <<"Could not get the channel count">>
                        ELSE FetchLoopTold(tab, 1))

find_channel_handleTold(w, chans) ==
    Narrate(w, IF Len(GetChannelHandlesEx(chans, "ALLCHANNELS")) < 1
               THEN <<"Could not get channel handles">>
               ELSE <<>>)

GetChannelInfoTold(w, arg, name, chans, range) ==
    IF ~w.initialized \/ ~IsNumber(arg) \/ ~IsString(name) THEN <<>>
    ELSE find_channel_handleTold(w, chans)
         \o (IF find_channel_handle(Int32Value(arg), name.s, chans).handle # 0
                 /\ range.st # "YE_OK"
             THEN Narrate(w, <<"Error getting channel value range">>)
             ELSE <<>>)

SetChannelValueTold(w, arg, name, value, chans, range, set_result) ==
    IF ~w.initialized \/ ~IsNumber(arg) \/ ~IsString(name) \/ ~IsNumber(value) THEN <<>>
    ELSE find_channel_handleTold(w, chans)
         \o (IF find_channel_handle(Int32Value(arg), name.s, chans).handle = 0
             THEN <<>>
             ELSE IF OutOfRange(value, range)
             THEN Narrate(w, <<"Value out of range. Valid range">>)
             ELSE IF set_result # "YE_OK"
             THEN Narrate(w, <<"Error setting channel value">>)
             ELSE <<>>)

----------------------------------------------------------------------------
(* SMInverter, the facade.  Every method is async: its outcome is a promise *)
(* that resolves or rejects.  A method runs without interruption up to an   *)
(* await; there it is suspended (an entry of pending) and other operations  *)
(* may run before it resumes.  Each action below takes a profile P: the     *)
(* sets its caller-supplied arguments and the native responses are drawn    *)
(* from, and whether the caller overlaps operations.                        *)

SdkNotInitialized == Reject("SDK not initialized. Call initialize() first")
DeviceNotFound == Reject("Device with name not found")

(* a variant that never throws *)
checkInitializedAlways(flag) == TRUE

(* _checkInitialized: TRUE when it returns, FALSE when it throws *)
checkInitialized(flag) == flag

NoArgs == [none |-> TRUE]

(* last records the operation that completed in the step just taken, and   *)
(* in again whether the operation completed before it was a shutdown; a     *)
(* step that suspends an operation completes none                          *)
AfterShutdown == IF last.op = "await" THEN last.again ELSE last.op = "shutdown"

Complete(op, was, args, out, logged, calls) ==
    last' = [op |-> op, was |-> was, args |-> args, out |-> out,
             logged |-> logged, calls |-> calls, again |-> AfterShutdown]

(* the same for an operation of the binding that writes to standard output *)
CompleteSaying(op, was, args, out, logged, calls, said) ==
    last' = [op |-> op, was |-> was, args |-> args, out |-> out,
             logged |-> logged, calls |-> calls, again |-> AfterShutdown,
             said |-> said]

Suspended(k) ==
    /\ pending' = k
    /\ last' = [op |-> "await", again |-> AfterShutdown]

RemoveAt(q, i) == SubSeq(q, 1, i - 1) \o SubSeq(q, i + 1, Len(q))

(* a variant for a binding that makes its native calls on another thread *)
ThreadFreeAlways == TRUE

(* The methods of the binding are synchronous: while the thread of the      *)
(* facade is inside a call of the binding (stage "native"), no other step   *)
(* of the facade runs.                                                      *)
ThreadFree == \A i \in 1..Len(pending) : pending[i].stage # "native"

(* The caller: it starts an operation while another is suspended only if it *)
(* overlaps operations, and it makes no further call once an operation of   *)
(* P.until has completed.                                                   *)
CanStart(P) ==
    /\ ThreadFree
    /\ P.overlap \/ pending = <<>>
    /\ last.op \notin P.until
CanSuspend == Len(pending) < MaxPending

Flags == [1..MaxDrivers -> BOOLEAN]

initialize(P) ==
    /\ CanStart(P)
    /\ \E n \in P.counts, ok \in Flags :
        LET r == Initialize(wrapper, yasdi, configPath, n, ok)
            returned == r.out.k = "return"
        IN  /\ wrapper' = r.w
            /\ yasdi' = r.y
            /\ initialized' = IF returned THEN r.out.v ELSE initialized
            /\ Complete("initialize", initialized, NoArgs,
                        Resolve(IF returned THEN r.out.v ELSE FALSE),
                        IF returned THEN NoError ELSE r.out, r.calls)
    /\ UNCHANGED <<configPath, deviceMap, pending>>

(* a variant that reports a shutdown of an idle session as a failure *)
shutdownUninitializedFalse == Resolve(FALSE)

(* if (!this.initialized) return true *)
shutdownUninitialized == Resolve(TRUE)

shutdown(P) ==
    /\ CanStart(P)
    /\ IF ~initialized
       THEN /\ Complete("shutdown", initialized, NoArgs, shutdownUninitialized,
                        NoError, <<>>)
            /\ UNCHANGED <<initialized, wrapper, yasdi>>
       ELSE \E off \in Flags :
            LET r == Shutdown(wrapper, yasdi, off)
                returned == r.out.k = "return"
            IN  /\ wrapper' = r.w
                /\ yasdi' = r.y
                /\ initialized' = IF returned THEN ~r.out.v ELSE initialized
                /\ Complete("shutdown", initialized, NoArgs,
                            Resolve(IF returned THEN r.out.v ELSE FALSE),
                            IF returned THEN NoError ELSE r.out, r.calls)
    /\ UNCHANGED <<configPath, deviceMap, pending>>

(* The session is released and the binding object destroyed: no operation   *)
(* is suspended, and none is called afterwards (destroy is in P.until).     *)
(* was is the initialized member of the binding.                            *)
Destroyed == [k |-> "destroyed"]

destroy(P) ==
    /\ CanStart(P)
    /\ pending = <<>>
    /\ \E off \in Flags :
        LET r == Destructor(wrapper, yasdi, off)
        IN  /\ wrapper' = r.w
            /\ yasdi' = r.y
            /\ Complete("destroy", wrapper.initialized, NoArgs, Destroyed,
                        NoError, r.calls)
    /\ UNCHANGED <<configPath, initialized, deviceMap, pending>>

(* async detectDevices(deviceCount = 1): an omitted argument becomes 1 *)
detectDevices(P) ==
    /\ CanStart(P)
    /\ \E given \in P.counted, status \in P.detected, found \in P.tables :
        LET deviceCount == IF given.t = "undefined" THEN Num(1) ELSE given
        IN  IF ~checkInitialized(initialized)
            THEN /\ CompleteSaying("detectDevices", initialized, [count |-> given],
                                   SdkNotInitialized, NoError, <<>>, "none")
                 /\ UNCHANGED <<wrapper, yasdi>>
            ELSE LET r == DetectDevices(wrapper, yasdi, deviceCount, status, found)
                     returned == r.out.k = "return"
                 IN  /\ wrapper' = r.w
                     /\ yasdi' = r.y
                     /\ CompleteSaying("detectDevices", initialized, [count |-> given],
                                       Resolve(IF returned THEN r.out.v ELSE FALSE),
                                       IF returned THEN NoError ELSE r.out, r.calls,
                                       r.said)
    /\ UNCHANGED <<configPath, initialized, deviceMap, pending>>

(* devices.forEach(device => this.deviceMap.set(device.name, device.handle)) *)
RECURSIVE CacheDevices(_, _, _)
CacheDevices(map, devices, i) ==
    IF i > Len(devices) THEN map
    ELSE CacheDevices([n \in DOMAIN map \cup {devices[i].name} |->
                          IF n = devices[i].name THEN devices[i].handle ELSE map[n]],
                      devices, i + 1)

(* the body of getDevices, which other methods call too *)
getDevicesBody(flag, w, y, map) ==
    IF ~checkInitialized(flag)
    THEN [out |-> SdkNotInitialized, map |-> map, logged |-> NoError, calls |-> <<>>]
    ELSE LET r == GetDevices(w, y)
         IN  IF r.out.k = "return"
             THEN [out |-> Resolve(r.out.v), map |-> CacheDevices(map, r.out.v, 1),
                   logged |-> NoError, calls |-> r.calls]
             ELSE [out |-> Resolve(<<>>), map |-> map, logged |-> r.out,
                   calls |-> r.calls]

getDevices(P) ==
    /\ CanStart(P)
    /\ LET g == getDevicesBody(initialized, wrapper, yasdi, deviceMap)
       IN  /\ deviceMap' = g.map
           /\ Complete("getDevices", initialized, NoArgs, g.out, g.logged, g.calls)
    /\ UNCHANGED <<configPath, initialized, wrapper, yasdi, pending>>

----------------------------------------------------------------------------
(* getDeviceData, getChannelInfo, setChannelValue.  Each ends with one call *)
(* into the binding (finish...), made at once for a numeric handle and      *)
(* after the awaits of the name resolution for a device name.               *)

Null == [null |-> TRUE]

(* _processData keeps the raw mapping under raw; the dc/ac/system entries it *)
(* adds are lookups into the same mapping                                   *)
(* a variant that loses the channels read *)
processDataEmpty(rawData) == [timestamp |-> rawData.timestamp, raw |-> EmptyMap]

processData(rawData) == [timestamp |-> rawData.timestamp, raw |-> rawData.channels]

(* A native response is drawn only when the call that asks for it is made: *)
(* Asks tells whether a run of a binding method issues a call to f.         *)
Asks(r, f) == \E i \in 1..Len(r.calls) : r.calls[i].f = f

finishGetDeviceData(P, was, args, handle, calls0) ==
    \E chans \in (IF Asks(GetDeviceData(wrapper, yasdi, handle, <<>>, ""),
                          "GetChannelHandlesEx")
                  THEN P.chans ELSE { <<>> }) :
    \E units0 \in (IF chans # <<>> THEN P.units0 ELSE {""}) :
        LET r == GetDeviceData(wrapper, yasdi, handle, chans, units0)
            returned == r.out.k = "return"
        IN  /\ wrapper' = r.w
            /\ yasdi' = r.y
            /\ Complete("getDeviceData", was, args,
                        IF returned
                        THEN Resolve(processData([r.out.v EXCEPT !.timestamp = "now"]))
                        ELSE Resolve(Null),
                        IF returned THEN NoError ELSE r.out, calls0 \o r.calls)

(* a variant without the catch: what the binding throws rejects the promise *)
finishGetChannelInfoRethrowing(P, was, args, handle, calls0) ==
    \E chans \in (IF Asks(GetChannelInfo(wrapper, yasdi, handle, args.chan, <<>>,
                                         NoRange, ""), "GetChannelHandlesEx")
                  THEN P.chans ELSE { <<>> }) :
    \E range \in (IF Asks(GetChannelInfo(wrapper, yasdi, handle, args.chan, chans,
                                         NoRange, ""), "GetChannelValRange")
                  THEN P.ranges ELSE {NoRange}) :
    \E units0 \in (IF range.st = "YE_OK" THEN P.units0 ELSE {""}) :
        LET r == GetChannelInfo(wrapper, yasdi, handle, args.chan, chans, range, units0)
            returned == r.out.k = "return"
        IN  /\ wrapper' = r.w
            /\ yasdi' = r.y
            /\ Complete("getChannelInfo", was, args,
                        IF returned THEN Resolve(r.out.v) ELSE Reject(r.out.message),
                        IF returned THEN NoError ELSE r.out, calls0 \o r.calls)

finishGetChannelInfo(P, was, args, handle, calls0) ==
    \E chans \in (IF Asks(GetChannelInfo(wrapper, yasdi, handle, args.chan, <<>>,
                                         NoRange, ""), "GetChannelHandlesEx")
                  THEN P.chans ELSE { <<>> }) :
    \E range \in (IF Asks(GetChannelInfo(wrapper, yasdi, handle, args.chan, chans,
                                         NoRange, ""), "GetChannelValRange")
                  THEN P.ranges ELSE {NoRange}) :
    \E units0 \in (IF range.st = "YE_OK" THEN P.units0 ELSE {""}) :
        LET r == GetChannelInfo(wrapper, yasdi, handle, args.chan, chans, range, units0)
            returned == r.out.k = "return"
        IN  /\ wrapper' = r.w
            /\ yasdi' = r.y
            /\ Complete("getChannelInfo", was, args,
                        IF returned THEN Resolve(r.out.v) ELSE Resolve(Null),
                        IF returned THEN NoError ELSE r.out, calls0 \o r.calls)

finishSetChannelValue(P, was, args, handle, calls0) ==
    \E chans \in (IF Asks(SetChannelValue(wrapper, yasdi, handle, args.chan, args.value,
                                          <<>>, NoRange, "YE_OK"), "GetChannelHandlesEx")
                  THEN P.chans ELSE { <<>> }) :
    \E range \in (IF Asks(SetChannelValue(wrapper, yasdi, handle, args.chan, args.value,
                                          chans, NoRange, "YE_OK"), "GetChannelValRange")
                  THEN P.ranges ELSE {NoRange}) :
    \E set_result \in (IF Asks(SetChannelValue(wrapper, yasdi, handle, args.chan,
                                               args.value, chans, range, "YE_OK"),
                               "SetChannelValue")
                       THEN P.written ELSE {"YE_OK"}) :
        LET r == SetChannelValue(wrapper, yasdi, handle, args.chan, args.value,
                                 chans, range, set_result)
            returned == r.out.k = "return"
        IN  /\ wrapper' = r.w
            /\ yasdi' = r.y
            /\ Complete("setChannelValue", was, args,
                        IF returned THEN Resolve(r.out.v)
                        ELSE Resolve([success |-> FALSE, error |-> r.out.message,
                                      code |-> "-1"]),
                        IF returned THEN NoError ELSE r.out, calls0 \o r.calls)

finish(P, op, args, handle, calls0) ==
    CASE op = "getDeviceData" -> finishGetDeviceData(P, TRUE, args, handle, calls0)
      [] op = "getChannelInfo" -> finishGetChannelInfo(P, TRUE, args, handle, calls0)
      [] op = "setChannelValue" -> finishSetChannelValue(P, TRUE, args, handle, calls0)

Continuation(op, stage, args, handle, calls) ==
    [op |-> op, stage |-> stage, args |-> args, handle |-> handle, calls |-> calls]

(* the cache miss: getDevices runs, and the method awaits its promise *)
refreshAndAwait(op, args) ==
    LET g == getDevicesBody(initialized, wrapper, yasdi, deviceMap)
    IN  /\ CanSuspend
        /\ deviceMap' = g.map
        /\ Suspended(Append(pending,
                Continuation(op, "refreshed", args, Undefined, g.calls)))
        /\ UNCHANGED <<wrapper, yasdi>>

rejectNotInitialized(op, args) ==
    /\ Complete(op, initialized, args, SdkNotInitialized, NoError, <<>>)
    /\ UNCHANGED <<deviceMap, wrapper, yasdi, pending>>

getDeviceData(P) ==
    /\ CanStart(P)
    /\ \E dev \in P.devices :
        LET args == [dev |-> dev]
        IN  IF ~checkInitialized(initialized)
            THEN rejectNotInitialized("getDeviceData", args)
            ELSE IF IsString(dev) /\ dev.s \notin DOMAIN deviceMap
            THEN refreshAndAwait("getDeviceData", args)
            ELSE /\ finishGetDeviceData(P, initialized, args,
                        IF IsString(dev) THEN Num(deviceMap[dev.s]) ELSE dev, <<>>)
                 /\ UNCHANGED <<deviceMap, pending>>
    /\ UNCHANGED <<configPath, initialized>>

(* a variant that refreshes the device map whether or not the name is cached *)
resolveAndAwaitRefreshing(op, args) == refreshAndAwait(op, args)

(* deviceHandle = await this._resolveDeviceHandle(deviceHandle): a cache hit *)
(* is awaited too                                                           *)
resolveAndAwait(op, args) ==
    IF args.dev.s \in DOMAIN deviceMap
    THEN /\ CanSuspend
         /\ Suspended(Append(pending,
                Continuation(op, "resolved", args, Num(deviceMap[args.dev.s]), <<>>)))
         /\ UNCHANGED <<deviceMap, wrapper, yasdi>>
    ELSE refreshAndAwait(op, args)

getChannelInfo(P) ==
    /\ CanStart(P)
    /\ \E dev \in P.devices, chan \in P.named :
        LET args == [dev |-> dev, chan |-> chan]
        IN  IF ~checkInitialized(initialized)
            THEN rejectNotInitialized("getChannelInfo", args)
            ELSE IF IsString(dev)
            THEN resolveAndAwait("getChannelInfo", args)
            ELSE /\ finishGetChannelInfo(P, initialized, args, dev, <<>>)
                 /\ UNCHANGED <<deviceMap, pending>>
    /\ UNCHANGED <<configPath, initialized>>

setChannelValue(P) ==
    /\ CanStart(P)
    /\ \E dev \in P.devices, chan \in P.named, value \in P.values :
        LET args == [dev |-> dev, chan |-> chan, value |-> value]
        IN  IF ~checkInitialized(initialized)
            THEN rejectNotInitialized("setChannelValue", args)
            ELSE IF IsString(dev)
            THEN resolveAndAwait("setChannelValue", args)
            ELSE /\ finishSetChannelValue(P, initialized, args, dev, <<>>)
                 /\ UNCHANGED <<deviceMap, pending>>
    /\ UNCHANGED <<configPath, initialized>>

(* after await this.getDevices(): look the name up again *)
resumeRefreshed(P) ==
    /\ ThreadFree
    /\ \E i \in 1..Len(pending) :
        LET k == pending[i]
            rest == RemoveAt(pending, i)
        IN  /\ k.stage = "refreshed"
            /\ IF k.args.dev.s \notin DOMAIN deviceMap
               THEN /\ Complete(k.op, TRUE, k.args, DeviceNotFound, NoError, k.calls)
                    /\ pending' = rest
                    /\ UNCHANGED <<wrapper, yasdi>>
               ELSE IF k.op = "getDeviceData"
               THEN /\ finishGetDeviceData(P, TRUE, k.args,
                                            Num(deviceMap[k.args.dev.s]), k.calls)
                    /\ pending' = rest
               ELSE /\ Suspended(Append(rest,
                        Continuation(k.op, "resolved", k.args,
                                     Num(deviceMap[k.args.dev.s]), k.calls)))
                    /\ UNCHANGED <<wrapper, yasdi>>
    /\ UNCHANGED <<configPath, initialized, deviceMap>>

(* after await this._resolveDeviceHandle(...): call the binding *)
resumeResolved(P) ==
    /\ ThreadFree
    /\ \E i \in 1..Len(pending) :
        LET k == pending[i]
        IN  /\ k.stage = "resolved"
            /\ finish(P, k.op, k.args, k.handle, k.calls)
            /\ pending' = RemoveAt(pending, i)
    /\ UNCHANGED <<configPath, initialized, deviceMap>>

(* The call of the binding taken in two steps, for a detection or a poll by *)
(* handle on an initialized session: enterNative is the call, leaveNative   *)
(* its return, and the thread of the facade is inside the binding between   *)
(* the two.                                                                 *)
enterNative(P) ==
    /\ CanStart(P)
    /\ CanSuspend
    /\ checkInitialized(initialized)
    /\ \/ \E given \in P.counted :
            Suspended(Append(pending,
                Continuation("detectDevices", "native", [count |-> given],
                             Undefined, <<>>)))
       \/ \E dev \in { d \in P.devices : IsNumber(d) } :
            Suspended(Append(pending,
                Continuation("getDeviceData", "native", [dev |-> dev], dev, <<>>)))
    /\ UNCHANGED <<configPath, initialized, deviceMap, wrapper, yasdi>>

leaveNative(P) ==
    /\ \E i \in 1..Len(pending) :
        LET k == pending[i]
        IN  /\ k.stage = "native"
            /\ pending' = RemoveAt(pending, i)
            /\ IF k.op = "getDeviceData"
               THEN finishGetDeviceData(P, TRUE, k.args, k.handle, k.calls)
               ELSE \E status \in P.detected, found \in P.tables :
                    LET deviceCount == IF k.args.count.t = "undefined"
                                       THEN Num(1) ELSE k.args.count
                        r == DetectDevices(wrapper, yasdi, deviceCount, status, found)
                        returned == r.out.k = "return"
                    IN  /\ wrapper' = r.w
                        /\ yasdi' = r.y
                        /\ CompleteSaying("detectDevices", TRUE, k.args,
                                          Resolve(IF returned THEN r.out.v ELSE FALSE),
                                          IF returned THEN NoError ELSE r.out, r.calls,
                                          r.said)
    /\ UNCHANGED <<configPath, initialized, deviceMap>>

----------------------------------------------------------------------------
(* The sets the inputs are drawn from *)

MaxHandle == 2       \* device handles the native layer may hand out
MaxVal == 3          \* largest value written, largest range bound

RawNames == { <<"W", "R">>, <<"W", " ", "R">> }

RECURSIVE SeqsUpTo(_, _)
SeqsUpTo(S, k) ==
    IF k = 0 THEN { <<>> }
    ELSE LET shorter == SeqsUpTo(S, k - 1)
         IN  shorter \cup { Append(q, x) : q \in {z \in shorter : Len(z) = k - 1}, x \in S }

(* device tables of the native layer: distinct handles, any names *)
DeviceTablesUpTo(k) ==
    { d \in SeqsUpTo([handle : 1..MaxHandle, name : RawNames], k) :
        \A i, j \in 1..Len(d) : i # j => d[i].handle # d[j].handle }

DeviceTables == DeviceTablesUpTo(MaxDevices)

(* channel i of a device has handle i and the i-th name and unit *)
ChannelNames == << <<"P">>, <<"p">>, <<"P", "a">>, <<"Q">>, <<"q">>, <<"Q", "a">> >>
ChannelUnits == << "W", "V", "A", "Hz", "h", "Ohm" >>

ReadOk == {"YE_OK"}
ReadAny == {"YE_OK", "YE_UNKNOWN_HANDLE"}
ValueAny == {"YE_OK", "YE_TIMEOUT"}

ChannelEntries(i, spots, nameSts, unitSts, valSts) ==
    { [h |-> i, spot |-> sp, nameSt |-> ns, name |-> ChannelNames[i],
       unitSt |-> us, unit |-> ChannelUnits[i], valSt |-> vs,
       txt |-> ChannelUnits[i], num |-> i] :
        sp \in spots, ns \in nameSts, us \in unitSts, vs \in valSts }

RECURSIVE ChannelTablesOf(_, _, _, _, _)
ChannelTablesOf(k, spots, nameSts, unitSts, valSts) ==
    IF k = 0 THEN { <<>> }
    ELSE { Append(q, e) : q \in ChannelTablesOf(k - 1, spots, nameSts, unitSts, valSts),
                          e \in ChannelEntries(k, spots, nameSts, unitSts, valSts) }

ChannelTables(K, spots, nameSts, unitSts, valSts) ==
    UNION { ChannelTablesOf(k, spots, nameSts, unitSts, valSts) : k \in 0..K }

Ranges(lo, hi) == { [st |-> "YE_OK", min |-> a, max |-> b] : a \in lo, b \in hi }

DeviceArgs ==
    { Num(h) : h \in 1..MaxHandle } \cup { Str(ReplaceSpaces(n)) : n \in RawNames }
        \cup { Undefined }

WriteStatuses ==
    {"YE_OK", "INVALID_HANDLE", "YE_SHUTDOWN", "YE_TIMEOUT", "YE_VALUE_NOT_VALID",
     "YE_NO_ACCESS_RIGHTS", "YE_UNKNOWN_HANDLE", "YE_TOO_MANY_REQUESTS"}

DetectStatuses ==
    {"YE_OK", "YE_DEV_DETECT_IN_PROGRESS", "YE_NOT_ALL_DEVS_FOUND", "YE_UNKNOWN_HANDLE"}

(* The session profile: the lifecycle in full, one device with one channel, *)
(* a caller that awaits each operation before it starts the next            *)
Session ==
    [overlap |-> FALSE,
     until |-> {},
     counts |-> 0..MaxDrivers,
     counted |-> {Undefined, Num(1), Num(2)},
     detected |-> {"YE_OK", "YE_DEV_DETECT_IN_PROGRESS"},
     tables |-> { <<>>, << [handle |-> 1, name |-> <<"W", " ", "R">>] >> },
     devices |-> {Num(1), Str(<<"W", "_", "R">>), Undefined},
     named |-> {Str(ChannelNames[1])},
     values |-> {Num(1), Num(3)},
     chans |-> ChannelTables(1, {TRUE}, ReadOk, ReadOk, ReadOk),
     ranges |-> {NoRange} \cup Ranges({1}, {2}),
     written |-> {"YE_OK", "YE_TIMEOUT"},
     units0 |-> {""}]

----------------------------------------------------------------------------
(* new SMInverter(options): configPath is options.configPath or the default *)
(* path; a non-string truthy option is kept as it is                        *)

NewWrapper ==
    [initialized |-> FALSE, drivers |-> [i \in 1..DriverCapacity |-> 0], driver_count |-> 0,
     debug_level |-> 0]

(* The native layer: whether the master layer is up, the drivers it          *)
(* reported, the drivers that are online, the devices it holds, and (owed)  *)
(* the drivers that a yasdiSetDriverOnline call set online for which no     *)
(* yasdiSetDriverOffline call was made since                                *)
NewNative == [up |-> FALSE, drivers |-> 0, online |-> {}, owed |-> {}, devices |-> <<>>]

Init ==
    /\ configPath \in {Str("/home/user/yasdi.ini"), Num(1)}
    /\ initialized = FALSE
    /\ deviceMap = EmptyMap
    /\ wrapper = NewWrapper
    /\ yasdi = NewNative
    /\ pending = <<>>
    /\ last = [op |-> "new", again |-> FALSE]

(* new SMInverter({debugLevel}): new InverterWrapper(this.debugLevel) keeps *)
(* a debug level that is a number                                           *)
MaxDebug == 1

DebugLevels == 0..MaxDebug

InitDebug ==
    /\ configPath \in {Str("/home/user/yasdi.ini"), Num(1)}
    /\ initialized = FALSE
    /\ deviceMap = EmptyMap
    /\ wrapper \in { [NewWrapper EXCEPT !.debug_level = l] : l \in DebugLevels }
    /\ yasdi = NewNative
    /\ pending = <<>>
    /\ last = [op |-> "new", again |-> FALSE]

Operations(P) ==
    \/ initialize(P)
    \/ detectDevices(P)
    \/ getDevices(P)
    \/ getDeviceData(P)
    \/ getChannelInfo(P)
    \/ setChannelValue(P)
    \/ resumeRefreshed(P)
    \/ resumeResolved(P)
    \/ shutdown(P)

Next == Operations(Session)

Spec == Init /\ [][Next]_vars

----------------------------------------------------------------------------
(* The writing profile: one driver, and a caller that ends with one         *)
(* setChannelValue, over every kind of argument, channel table, range and   *)
(* native write status                                                      *)

Writing ==
    [overlap |-> FALSE,
     until |-> {"setChannelValue"},
     counts |-> {1},
     counted |-> {Undefined},
     detected |-> {"YE_OK"},
     tables |-> { <<>>, << [handle |-> 1, name |-> <<"W", " ", "R">>] >> },
     devices |-> {Num(1), Str(<<"W", "_", "R">>), Undefined},
     named |-> { Str(ChannelNames[i]) : i \in 1..(MaxChannels + 1) } \cup {Undefined},
     values |-> { Num(v) : v \in 0..MaxVal } \cup {NaN, Undefined},
     chans |-> ChannelTables(MaxChannels, {FALSE}, ReadAny, ReadOk, ReadOk),
     ranges |-> {NoRange} \cup Ranges({1}, {MaxVal - 1}) \cup Ranges({0}, {MaxVal}),
     written |-> WriteStatuses,
     units0 |-> {""}]

NextWrite ==
    \/ initialize(Writing)
    \/ detectDevices(Writing)
    \/ getDevices(Writing)
    \/ setChannelValue(Writing)
    \/ resumeRefreshed(Writing)
    \/ resumeResolved(Writing)
    \/ shutdown(Writing)

SpecWrite == Init /\ [][NextWrite]_vars

----------------------------------------------------------------------------
(* The discovery profile: the lifecycle with detection and enumeration      *)
(* only, over every count and detection status                              *)

Detecting ==
    [overlap |-> FALSE,
     until |-> {},
     counts |-> {1, MaxDrivers},
     counted |-> {Undefined} \cup { Num(n) : n \in 0..(MaxDevices + 1) },
     detected |-> DetectStatuses,
     tables |-> { <<>>, << [handle |-> 1, name |-> <<"W", " ", "R">>] >> }]

NextDetect ==
    \/ initialize(Detecting)
    \/ detectDevices(Detecting)
    \/ getDevices(Detecting)
    \/ shutdown(Detecting)

SpecDetect == Init /\ [][NextDetect]_vars

----------------------------------------------------------------------------
(* The naming profile: a caller that ends with one getDevices, over one     *)
(* device with every raw name of up to MaxName characters and two devices   *)
(* with every raw name of MaxName characters                                *)

MaxName == 2

NameChars == {"W", " ", "_"}

NameTables ==
    LET names == SeqsUpTo(NameChars, MaxName)
        full == { n \in names : Len(n) = MaxName }
    IN  { <<>> } \cup { << [handle |-> 1, name |-> n] >> : n \in names }
          \cup { << [handle |-> 2, name |-> n], [handle |-> 1, name |-> m] >> :
                    n \in full, m \in full }

Naming ==
    [overlap |-> FALSE,
     until |-> {"getDevices"},
     counts |-> {0, 1},
     counted |-> {Undefined},
     detected |-> {"YE_OK"},
     tables |-> NameTables]

NextNames ==
    \/ initialize(Naming)
    \/ detectDevices(Naming)
    \/ getDevices(Naming)

SpecNames == Init /\ [][NextNames]_vars

----------------------------------------------------------------------------
(* The listing profile: a caller that detects and enumerates again and      *)
(* again, over device tables of up to MaxDevices + 1 devices                *)

Listing ==
    [overlap |-> FALSE,
     until |-> {},
     counts |-> {0, 1},
     counted |-> {Undefined},
     detected |-> {"YE_OK"},
     tables |-> DeviceTablesUpTo(MaxDevices + 1)]

NextList ==
    \/ initialize(Listing)
    \/ detectDevices(Listing)
    \/ getDevices(Listing)

SpecList == Init /\ [][NextList]_vars

----------------------------------------------------------------------------
(* The overlapping profile: an event-driven caller, such as a timer that    *)
(* polls while requests arrive, which starts operations while others are    *)
(* suspended                                                                *)

Overlapping ==
    [overlap |-> TRUE,
     until |-> {},
     counts |-> {1},
     counted |-> {Undefined},
     detected |-> {"YE_OK", "YE_DEV_DETECT_IN_PROGRESS"},
     tables |-> { <<>>, << [handle |-> 1, name |-> <<"W", " ", "R">>] >> },
     devices |-> {Num(1), Str(<<"W", "_", "R">>)},
     named |-> {Str(ChannelNames[1])},
     values |-> {Num(1)},
     chans |-> ChannelTables(1, {TRUE}, ReadOk, ReadOk, ReadOk),
     ranges |-> Ranges({1}, {2}),
     written |-> {"YE_OK"},
     units0 |-> {""}]

NextOverlap ==
    \/ initialize(Overlapping)
    \/ enterNative(Overlapping)
    \/ leaveNative(Overlapping)
    \/ getDevices(Overlapping)
    \/ getDeviceData(Overlapping)
    \/ getChannelInfo(Overlapping)
    \/ setChannelValue(Overlapping)
    \/ resumeRefreshed(Overlapping)
    \/ resumeResolved(Overlapping)
    \/ shutdown(Overlapping)

SpecOverlap == Init /\ [][NextOverlap]_vars

----------------------------------------------------------------------------
(* The polling profile: a caller that ends with one getDeviceData by        *)
(* handle, over every channel table: spot or not, each read failing or not  *)

Polling ==
    [overlap |-> FALSE,
     until |-> {"getDeviceData"},
     counts |-> {0, 1},
     devices |-> {Num(1), Undefined},
     chans |-> ChannelTables(MaxChannels, BOOLEAN, ReadAny, ReadAny, ValueAny),
     units0 |-> {"", "?"}]

NextPoll ==
    \/ initialize(Polling)
    \/ getDeviceData(Polling)

SpecPoll == Init /\ [][NextPoll]_vars

(* The lookup profile: a caller that ends with one getChannelInfo by        *)
(* handle, over every channel table and channel name                        *)

Looking ==
    [overlap |-> FALSE,
     until |-> {"getChannelInfo"},
     counts |-> {0, 1},
     devices |-> {Num(1), Undefined},
     named |-> { Str(ChannelNames[i]) : i \in 1..(MaxChannels + 1) } \cup {Undefined},
     chans |-> ChannelTables(MaxChannels, BOOLEAN, ReadAny, ReadAny, ReadOk),
     ranges |-> {NoRange} \cup Ranges({1}, {2}),
     units0 |-> {"", "?"}]

NextLookup ==
    \/ initialize(Looking)
    \/ getChannelInfo(Looking)

SpecLookup == Init /\ [][NextLookup]_vars

(* The calling profile: a caller that gives each operation well-formed and  *)
(* malformed arguments: a handle, a channel name or a value left out, a     *)
(* count that is a string                                                   *)

Calling ==
    [overlap |-> FALSE,
     until |-> {},
     counts |-> {1},
     counted |-> {Undefined, Num(2), Str(<<"2">>)},
     detected |-> {"YE_OK", "YE_NOT_ALL_DEVS_FOUND"},
     tables |-> { <<>>, << [handle |-> 1, name |-> <<"W", " ", "R">>] >> },
     devices |-> {Num(1), Undefined},
     named |-> {Str(ChannelNames[1]), Undefined},
     values |-> {Num(1), Undefined},
     chans |-> ChannelTables(1, {TRUE}, ReadOk, ReadOk, ReadOk),
     ranges |-> {NoRange} \cup Ranges({1}, {2}),
     written |-> {"YE_OK"},
     units0 |-> {""}]

NextCall ==
    \/ initialize(Calling)
    \/ detectDevices(Calling)
    \/ getDeviceData(Calling)
    \/ getChannelInfo(Calling)
    \/ setChannelValue(Calling)
    \/ shutdown(Calling)

SpecCall == Init /\ [][NextCall]_vars

(* The releasing profile: the lifecycle of a session up to the destruction  *)
(* of its binding object                                                    *)
Releasing ==
    [overlap |-> FALSE,
     until |-> {"destroy"},
     counts |-> 0..MaxDrivers,
     counted |-> {Undefined},
     detected |-> {"YE_OK"},
     tables |-> { <<>>, << [handle |-> 1, name |-> <<"W", " ", "R">>] >> }]

NextRelease ==
    \/ initialize(Releasing)
    \/ detectDevices(Releasing)
    \/ getDevices(Releasing)
    \/ shutdown(Releasing)
    \/ destroy(Releasing)

SpecRelease == Init /\ [][NextRelease]_vars

(* The narrating profile: sessions of every debug level, over channel       *)
(* tables in which each read fails or not                                   *)
Narrating ==
    [overlap |-> FALSE,
     until |-> {},
     counts |-> {0, 1},
     counted |-> {Undefined, Num(2)},
     detected |-> {"YE_OK", "YE_NOT_ALL_DEVS_FOUND"},
     tables |-> { <<>>, << [handle |-> 1, name |-> <<"W", " ", "R">>] >> },
     devices |-> {Num(1), Str(<<"W", "_", "R">>), Undefined},
     named |-> {Str(ChannelNames[1])},
     values |-> {Num(1), Num(3)},
     chans |-> ChannelTables(1, BOOLEAN, ReadAny, ReadOk, ValueAny),
     ranges |-> {NoRange} \cup Ranges({1}, {2}),
     written |-> {"YE_OK", "YE_TIMEOUT"},
     units0 |-> {""}]

NextDebug == Operations(Narrating)

SpecDebug == InitDebug /\ [][NextDebug]_vars

----------------------------------------------------------------------------
(* Properties.  They are statements about last, the record of the operation *)
(* that completed in the step just taken: its arguments, the value of       *)
(* initialized when it was called (was), its outcome, the error the facade  *)
(* caught and logged, and the native calls it issued.                       *)

CallsTo(calls, f) == SelectSeq(calls, LAMBDA c : c.f = f)

Completed(op) == last.op = op

DeviceOperations ==
    {"detectDevices", "getDevices", "getDeviceData", "getChannelInfo", "setChannelValue"}

(* C1: an operation on devices or channels called while the session is not  *)
(* initialized rejects with the not-initialized error and issues no native  *)
(* call at all.                                                             *)
C1_NotInitializedFailsFast ==
    (last.op \in DeviceOperations /\ ~last.was) =>
        /\ last.out = SdkNotInitialized
        /\ last.calls = <<>>

(* a channel write rejected after a shutdown, the master layer down *)
C1_Witness ==
    /\ Completed("setChannelValue")
    /\ ~last.was
    /\ last.again
    /\ ~yasdi.up
    /\ wrapper.driver_count > 0

(* C5: from an uninitialized session initialize resolves to true exactly    *)
(* when the native layer enumerated a driver and a yasdiSetDriverOnline     *)
(* call succeeded, and initialized is afterwards what initialize returned.  *)
DriversEnumerated ==
    \E i \in 1..Len(last.calls) :
        last.calls[i].f = "yasdiMasterGetDriver" /\ last.calls[i].r >= 1

DriverSetOnline ==
    \E i \in 1..Len(last.calls) :
        last.calls[i].f = "yasdiSetDriverOnline" /\ last.calls[i].r = TRUE

C5_InitializeSucceedsIff ==
    (Completed("initialize") /\ ~last.was) =>
        /\ last.out.k = "resolve"
        /\ last.out.v = (DriversEnumerated /\ DriverSetOnline)
        /\ initialized = last.out.v

(* two drivers, one refuses to go online, initialize succeeds *)
C5_Witness ==
    /\ Completed("initialize")
    /\ ~last.was
    /\ last.out.v = TRUE
    /\ \E i \in 1..Len(last.calls) :
        last.calls[i].f = "yasdiSetDriverOnline" /\ last.calls[i].r = FALSE

(* C6 as claimed: two failing initialize calls with different causes have   *)
(* different outcomes.                                                      *)
InitializeFailed(l) == l.op = "initialize" /\ l.logged.k = "throw"

C6_DistinctOutcomes ==
    [][ (InitializeFailed(last) /\ InitializeFailed(last')
            /\ last.logged.message # last'.logged.message)
        => last.out # last'.out ]_vars

(* C6 as the code has it: the binding raises a distinct error for each      *)
(* cause, the facade logs it and resolves to false for every cause.         *)
NoDriverReported ==
    \E i \in 1..Len(last.calls) :
        last.calls[i].f = "yasdiMasterInitialize" /\ last.calls[i].r = 0

C6_FailureLoggedNotReturned ==
    (Completed("initialize") /\ last.calls # <<>> /\ ~(DriversEnumerated /\ DriverSetOnline)) =>
        /\ last.out = Resolve(FALSE)
        /\ last.logged.k = "throw"
        /\ last.logged.message =
              (IF NoDriverReported THEN "No YASDI drivers found"
               ELSE "No drivers could be set online")

(* drivers were found and none went online *)
C6_Witness ==
    /\ Completed("initialize")
    /\ DriversEnumerated
    /\ ~DriverSetOnline
    /\ last.out = Resolve(FALSE)

(* C7: every shutdown resolves to true without an error; a shutdown that    *)
(* follows a shutdown, like any shutdown of an uninitialized session,       *)
(* issues no native call.                                                   *)
C7_ShutdownIdempotent ==
    Completed("shutdown") =>
        /\ last.out = Resolve(TRUE)
        /\ last.logged = NoError
        /\ last.again => ~last.was
        /\ ~last.was => last.calls = <<>>

(* the second of two shutdowns, the first of which took the master down *)
C7_Witness ==
    /\ Completed("shutdown")
    /\ last.again
    /\ ~yasdi.up
    /\ wrapper.driver_count > 0

(* C8: shutdown of an initialized session calls yasdiSetDriverOffline for   *)
(* each known driver in turn, whatever the earlier calls did, then          *)
(* yasdiMasterShutdown once as its last call, clears initialized and        *)
(* resolves to true.                                                        *)
C8_ShutdownOrder ==
    (Completed("shutdown") /\ last.was) =>
        /\ Len(last.calls) = wrapper.driver_count + 1
        /\ \A i \in 1..wrapper.driver_count :
              /\ last.calls[i].f = "yasdiSetDriverOffline"
              /\ last.calls[i].a = << wrapper.drivers[i] >>
        /\ last.calls[Len(last.calls)].f = "yasdiMasterShutdown"
        /\ ~initialized
        /\ ~wrapper.initialized
        /\ last.out = Resolve(TRUE)

(* the first of two drivers stays online, the second is still set offline *)
C8_Witness ==
    /\ Completed("shutdown")
    /\ last.was
    /\ Len(last.calls) = 3
    /\ last.calls[1].r = FALSE
    /\ last.calls[2].f = "yasdiSetDriverOffline"

----------------------------------------------------------------------------
(* setChannelValue, read off the log of the call: the range the native      *)
(* layer reported, the write it received, the name reads that matched       *)

RangeReads == CallsTo(last.calls, "GetChannelValRange")
Writes == CallsTo(last.calls, "SetChannelValue")

RangeRead == RangeReads[1].r

Below(value, bound) == IsNumber(value) /\ ~IsNaN(value) /\ value.n < bound
Above(value, bound) == IsNumber(value) /\ ~IsNaN(value) /\ value.n > bound

ValueOutside ==
    /\ Len(RangeReads) = 1
    /\ RangeRead.st = "YE_OK"
    /\ Below(last.args.value, RangeRead.min) \/ Above(last.args.value, RangeRead.max)

(* C2: a value below min or above max of a range that was read is never     *)
(* written; the result is success:false with validRange the range read.     *)
C2_OutOfRangeNotWritten ==
    (Completed("setChannelValue") /\ ValueOutside) =>
        /\ Writes = <<>>
        /\ last.out.k = "resolve"
        /\ last.out.v.success = FALSE
        /\ last.out.v.validRange = [min |-> RangeRead.min, max |-> RangeRead.max]

(* the value just above max is rejected *)
C2_Witness ==
    /\ Completed("setChannelValue")
    /\ ValueOutside
    /\ last.args.value = Num(RangeRead.max + 1)
    /\ RangeRead.min # RangeRead.max

(* C3 as claimed: at most one native write per call, and one exactly when   *)
(* the channel name resolved and the range read failed or                   *)
(* min <= value <= max.                                                     *)
NameResolved ==
    /\ IsString(last.args.chan)
    /\ \E i \in 1..Len(last.calls) :
        /\ last.calls[i].f = "GetChannelName"
        /\ last.calls[i].r.st = "YE_OK"
        /\ last.calls[i].r.name = last.args.chan.s

ValueWithin ==
    /\ IsNumber(last.args.value)
    /\ ~IsNaN(last.args.value)
    /\ RangeRead.min <= last.args.value.n
    /\ last.args.value.n <= RangeRead.max

C3_WriteIffInRange ==
    Completed("setChannelValue") =>
        /\ Len(Writes) <= 1
        /\ (Len(Writes) = 1) <=>
              /\ NameResolved
              /\ Len(RangeReads) = 1
              /\ RangeRead.st # "YE_OK" \/ ValueWithin

(* C4: when the native write is attempted, success is (status = YE_OK),     *)
(* code is the status, and the error names the status: one message for each *)
(* of the five statuses the switch knows, "Unknown error" for the others,   *)
(* none on success.                                                         *)
WriteStatus == Writes[1].r

C4_WriteStatusMapped ==
    (Completed("setChannelValue") /\ Len(Writes) = 1) =>
        /\ last.out.k = "resolve"
        /\ last.out.v.success = (WriteStatus = "YE_OK")
        /\ last.out.v.code = WriteStatus
        /\ (WriteStatus = "YE_OK") <=> ("error" \notin DOMAIN last.out.v)
        /\ WriteStatus = "INVALID_HANDLE" =>
              last.out.v.error = "Invalid channel handle"
        /\ WriteStatus = "YE_SHUTDOWN" =>
              last.out.v.error = "YASDI is in shutdown mode"
        /\ WriteStatus = "YE_TIMEOUT" =>
              last.out.v.error = "Device did not respond (timeout)"
        /\ WriteStatus = "YE_VALUE_NOT_VALID" =>
              last.out.v.error = "Channel value not within valid range"
        /\ WriteStatus = "YE_NO_ACCESS_RIGHTS" =>
              last.out.v.error = "Not enough access rights to write to channel"
        /\ WriteStatus \notin {"YE_OK", "INVALID_HANDLE", "YE_SHUTDOWN", "YE_TIMEOUT",
                               "YE_VALUE_NOT_VALID", "YE_NO_ACCESS_RIGHTS"} =>
              last.out.v.error = "Unknown error"

(* a write by device name that the device did not answer *)
C4_Witness ==
    /\ Completed("setChannelValue")
    /\ Len(Writes) = 1
    /\ WriteStatus = "YE_TIMEOUT"
    /\ IsString(last.args.dev)
    /\ last.out.v.success = FALSE

----------------------------------------------------------------------------
(* getDeviceData and getChannelInfo, read off the log of the call *)

Enumerations == CallsTo(last.calls, "GetChannelHandlesEx")
NameReads == CallsTo(last.calls, "GetChannelName")
ValueReads == CallsTo(last.calls, "GetChannelValue")

(* the handles the native layer enumerated for the call *)
Enumerated == Enumerations[1].r

FailedValueReads == { i \in 1..Len(ValueReads) : ValueReads[i].r.st # "YE_OK" }

(* a poll of K >= 1 spot channels, every name read, one value not read *)
OneValueFails ==
    /\ Completed("getDeviceData")
    /\ Len(Enumerations) = 1
    /\ Len(NameReads) = Len(Enumerated)
    /\ \A i \in 1..Len(NameReads) : NameReads[i].r.st = "YE_OK"
    /\ Cardinality(FailedValueReads) = 1

(* C9: a poll of K spot channels in which the value of exactly one channel  *)
(* j cannot be read resolves to a mapping with the K-1 other channels, and  *)
(* neither rejects nor resolves to null.                                    *)
C9_OneFailureOmitsOneChannel ==
    OneValueFails =>
        /\ last.out.k = "resolve"
        /\ last.out.v # Null
        /\ DOMAIN last.out.v.raw =
              { NameReads[i].r.name : i \in (1..Len(NameReads)) \ FailedValueReads }
        /\ Cardinality(DOMAIN last.out.v.raw) = Len(Enumerated) - 1

(* two spot channels, the value of the first is not read *)
C9_Witness ==
    /\ OneValueFails
    /\ Len(Enumerated) = 2
    /\ FailedValueReads = {1}
    /\ DOMAIN last.out.v.raw = { ChannelNames[2] }

(* C10: find_channel_handle asks for all channels of the device; it finds   *)
(* no handle when the name read of no enumerated channel gives exactly the  *)
(* name asked for, and otherwise the handle of the first enumerated channel *)
(* whose name read gives exactly that name.                                 *)
LookupRan ==
    /\ Completed("getChannelInfo")
    /\ Len(Enumerations) = 1

Matches(i) ==
    /\ NameReads[i].r.st = "YE_OK"
    /\ NameReads[i].r.name = last.args.chan.s

(* what the lookup returned: the handle handed to GetChannelValRange, or 0 *)
LookedUp == IF RangeReads = <<>> THEN 0 ELSE RangeReads[1].a[1]

C10_FindChannelHandle ==
    LookupRan =>
        /\ Enumerations[1].a[2] = "ALLCHANNELS"
        /\ \A i \in 1..Len(NameReads) : NameReads[i].a = << Enumerated[i] >>
        /\ IF \E i \in 1..Len(NameReads) : Matches(i)
           THEN /\ Matches(Len(NameReads))
                /\ \A i \in 1..(Len(NameReads) - 1) : ~Matches(i)
                /\ LookedUp = Enumerated[Len(NameReads)]
           ELSE /\ Len(NameReads) = Len(Enumerated)
                /\ LookedUp = 0
                /\ last.out = Resolve(Null)
                /\ last.logged = Throw("Error", "Channel not found")

(* the channel found is not a spot channel and comes second, after a        *)
(* channel whose name differs from it in case only                          *)
C10_Witness ==
    /\ LookupRan
    /\ last.args.chan = Str(<<"p">>)
    /\ Len(NameReads) = 2
    /\ NameReads[1].r.name = <<"P">>
    /\ NameReads[1].r.st = "YE_OK"
    /\ LookedUp = 2
    /\ Len(Enumerated) = 2

----------------------------------------------------------------------------
(* getChannelInfo: the outcome of the lookup and of the range read *)

(* no channel the native layer enumerated for the call has the name asked for *)
NameAbsent ==
    /\ Len(NameReads) = Len(Enumerated)
    /\ \A i \in 1..Len(NameReads) : ~Matches(i)

(* the caller receives the range object of the binding *)
RangeObjectReturned ==
    /\ last.out.k = "resolve"
    /\ last.out.v # Null

LookupFailed(l) ==
    /\ l.op = "getChannelInfo"
    /\ l.logged \in {ChannelNotFound, RangeReadFailed}

C12_DistinctOutcomes ==
    [][ (LookupFailed(last) /\ LookupFailed(last')
            /\ last.logged.message # last'.logged.message)
        => last.out # last'.out ]_vars

(* C12 as the code has it: the binding raises 'Failed to get channel value  *)
(* range' when the range read fails and 'Channel not found' when the lookup *)
(* fails, the facade logs the error and resolves to null for either, and    *)
(* the caller receives a range object exactly when the lookup found a       *)
(* channel and the range read succeeded.                                    *)
RangeReadOk == RangeReads # <<>> /\ RangeRead.st = "YE_OK"

C12_RangeFailureLoggedNotReturned ==
    LookupRan =>
        /\ RangeObjectReturned <=> (LookedUp # 0 /\ RangeReadOk)
        /\ RangeObjectReturned =>
              /\ DOMAIN last.out.v = {"handle", "name", "minValue", "maxValue", "units"}
              /\ last.out.v.handle = LookedUp
              /\ last.out.v.minValue = RangeRead.min
              /\ last.out.v.maxValue = RangeRead.max
        /\ (LookedUp # 0 /\ ~RangeReadOk) =>
              /\ last.logged.k = "throw"
              /\ last.logged.message = "Failed to get channel value range"
              /\ last.out = Resolve(Null)
        /\ LookedUp = 0 =>
              /\ last.logged.k = "throw"
              /\ last.logged.message = "Channel not found"
              /\ last.out = Resolve(Null)

(* the channel is found and its range cannot be read *)
C12_Witness ==
    /\ LookupRan
    /\ LookedUp # 0
    /\ ~RangeReadOk
    /\ last.out = Resolve(Null)

----------------------------------------------------------------------------
(* Operations given a device name *)

ChannelOperations == {"getDeviceData", "getChannelInfo", "setChannelValue"}

Refreshes(calls) == CallsTo(calls, "GetDeviceHandles")

(* calls that getDevices makes; every other call reads or writes a channel *)
DeviceCalls == {"GetDeviceHandles", "GetDeviceName"}

(* a channel operation given a name has completed on an initialized session *)
DoneByName ==
    /\ last.op \in ChannelOperations
    /\ last.was
    /\ IsString(last.args.dev)

(* the step suspends an operation that was called in it *)
Awaits == Len(pending') = Len(pending) + 1
Awaited == pending'[Len(pending')]

(* C13: an operation given a device name that is in the cache uses the      *)
(* cached handle without a refresh; given a name that is not, it runs       *)
(* getDevices once, and if the name is still not in the cache it rejects    *)
(* with 'device not found' having made no call that reads or writes a       *)
(* channel.                                                                 *)
C13_NameResolvedThroughCache ==
    [][ /\ (Awaits /\ Awaited.args.dev.s \in DOMAIN deviceMap) =>
              /\ Awaited.stage = "resolved"
              /\ Awaited.handle = Num(deviceMap[Awaited.args.dev.s])
              /\ Awaited.calls = <<>>
              /\ deviceMap' = deviceMap
        /\ (Awaits /\ Awaited.args.dev.s \notin DOMAIN deviceMap) =>
              /\ Awaited.stage = "refreshed"
              /\ Len(Refreshes(Awaited.calls)) = 1
        /\ (pending = <<>> /\ DoneByName' /\ last'.args.dev.s \in DOMAIN deviceMap) =>
              /\ Refreshes(last'.calls) = <<>>
              /\ deviceMap' = deviceMap
        /\ DoneByName' =>
              /\ Len(Refreshes(last'.calls)) <= 1
              /\ IF last'.args.dev.s \in DOMAIN deviceMap'
                 THEN /\ last'.out # DeviceNotFound
                      /\ \A i \in 1..Len(last'.calls) :
                            last'.calls[i].f = "GetChannelHandlesEx" =>
                                last'.calls[i].a[1] = deviceMap'[last'.args.dev.s]
                 ELSE /\ last'.out = DeviceNotFound
                      /\ Len(Refreshes(last'.calls)) = 1
                      /\ \A i \in 1..Len(last'.calls) :
                            last'.calls[i].f \in DeviceCalls
      ]_vars

(* a write by a device name that a refresh did not bring into the cache *)
C13_Witness ==
    /\ Completed("setChannelValue")
    /\ DoneByName
    /\ last.out = DeviceNotFound
    /\ Len(Refreshes(last.calls)) = 1

----------------------------------------------------------------------------
(* detectDevices, read off the log of the call *)

Detections == CallsTo(last.calls, "DoStartDeviceDetection")

(* the count the caller asked for: 1 when it gave none *)
CountAsked == IF last.args.count = Undefined THEN 1 ELSE last.args.count.n

(* C14: detectDevices(n) on an initialized session makes one native call,   *)
(* a blocking DoStartDeviceDetection for n devices (1 when n is omitted),   *)
(* and resolves to true exactly when its status is YE_OK.                   *)
C14_OneDetectionRequest ==
    (Completed("detectDevices") /\ last.was) =>
        /\ Len(last.calls) = 1
        /\ Len(Detections) = 1
        /\ Detections[1].a = << CountAsked, TRUE >>
        /\ last.out = Resolve(Detections[1].r = "YE_OK")

(* a detection for two devices that found only some of them *)
C14_Witness ==
    /\ Completed("detectDevices")
    /\ last.was
    /\ last.args.count = Num(2)
    /\ Detections[1].r = "YE_NOT_ALL_DEVS_FOUND"
    /\ last.out = Resolve(FALSE)

(* C15: when the native layer answers that a detection is in progress,     *)
(* detectDevices resolves to false, the binding having written 'Detection   *)
(* in progress' to its output; no error is raised.                          *)
C15_DetectionInProgress ==
    (Completed("detectDevices") /\ last.was
        /\ Detections # <<>> /\ Detections[1].r = "YE_DEV_DETECT_IN_PROGRESS") =>
        /\ last.out = Resolve(FALSE)
        /\ last.said = "Error: Detection in progress"
        /\ last.logged = NoError

C15_Witness ==
    /\ Completed("detectDevices")
    /\ last.was
    /\ Detections # <<>>
    /\ Detections[1].r = "YE_DEV_DETECT_IN_PROGRESS"
    /\ last.said = "Error: Detection in progress"

(* C16: a detectDevices call on an initialized session, whatever it         *)
(* resolves to, leaves the initialized flags, the drivers the binding       *)
(* knows and the name-to-handle cache as they were.                         *)
C16_DetectionKeepsSession ==
    [][ (last'.op = "detectDevices" /\ last'.was) =>
            /\ initialized' = initialized
            /\ initialized'
            /\ wrapper' = wrapper
            /\ deviceMap' = deviceMap
            /\ yasdi'.up = yasdi.up
            /\ yasdi'.drivers = yasdi.drivers
            /\ yasdi'.online = yasdi.online
      ]_vars

(* a failed detection on a session with a cached device *)
C16_Witness ==
    /\ Completed("detectDevices")
    /\ last.was
    /\ last.out = Resolve(FALSE)
    /\ initialized
    /\ DOMAIN deviceMap # {}
    /\ wrapper.driver_count = 2

----------------------------------------------------------------------------
(* getDevices, read off the log of the call *)

NamesRead == CallsTo(last.calls, "GetDeviceName")

(* the raw name the native layer gave for a handle *)
RawNameOf(h) ==
    NamesRead[CHOOSE i \in 1..Len(NamesRead) : NamesRead[i].a = <<h>>].r

Spaces(s) == { p \in 1..Len(s) : s[p] = " " }

(* C17: every device that the native layer names is returned, under a name  *)
(* of the length of its raw name that has an underscore where the raw name  *)
(* has a space and the character of the raw name everywhere else; the       *)
(* positions that differ are the N positions of the N spaces.  The name     *)
(* returned is thereby a function of the raw name.                          *)
C17_SpacesBecomeUnderscores ==
    (Completed("getDevices") /\ last.was) =>
        /\ last.out.k = "resolve"
        /\ { last.out.v[i].handle : i \in 1..Len(last.out.v) } =
              { NamesRead[i].a[1] : i \in 1..Len(NamesRead) }
        /\ \A i \in 1..Len(last.out.v) :
              LET raw == RawNameOf(last.out.v[i].handle)
                  name == last.out.v[i].name
              IN  /\ Len(name) = Len(raw)
                  /\ \A p \in Spaces(raw) : name[p] = "_"
                  /\ \A p \in (1..Len(raw)) \ Spaces(raw) : name[p] = raw[p]
                  /\ { p \in 1..Len(raw) : name[p] # raw[p] } = Spaces(raw)
                  /\ Spaces(name) = {}

(* a raw name of two spaces, and one with an underscore of its own *)
C17_Witness ==
    /\ Completed("getDevices")
    /\ last.was
    /\ Len(last.out.v) = 2
    /\ RawNameOf(1) = <<" ", "_">>
    /\ RawNameOf(2) = <<" ", " ">>
    /\ last.out.v[2].name = <<"_", "_">>

----------------------------------------------------------------------------
(* C18: getDevices makes no call to the native detection and leaves the     *)
(* initialized flag as it is; a getDevices call that follows a getDevices   *)
(* call, the native device table being the same for both, resolves to the   *)
(* same list in the same order and leaves the name-to-handle cache as the   *)
(* first call left it.                                                      *)
C18_GetDevicesIdempotent ==
    [][ /\ last.op = "getDevices" =>
            \A i \in 1..Len(last.calls) : last.calls[i].f \in DeviceCalls
        /\ last'.op = "getDevices" =>
            /\ initialized' = initialized
            /\ wrapper' = wrapper
            /\ yasdi' = yasdi
            /\ (last.op = "getDevices" /\ last.was) =>
                  /\ last'.out = last.out
                  /\ last'.calls = last.calls
                  /\ deviceMap' = deviceMap
      ]_vars

(* two devices enumerated, listed by ascending handle whatever the order    *)
(* of the native table, and cached                                          *)
C18_Witness ==
    /\ Completed("getDevices")
    /\ last.was
    /\ Len(last.out.v) = 2
    /\ NamesRead[1].a = <<2>>
    /\ last.out.v[1].handle = 1
    /\ Cardinality(DOMAIN deviceMap) = 2

----------------------------------------------------------------------------
(* The usage example of the README, link by link: each operation follows    *)
(* the one before it, whose outcome was the one the scenario expects.       *)

Initialized1 == last.op = "initialize" /\ last.out = Resolve(TRUE)
Detected2 == last.op = "detectDevices" /\ last.out = Resolve(TRUE)
Listed3 ==
    /\ last.op = "getDevices"
    /\ last.out.k = "resolve"
    /\ Len(last.out.v) = 1
Polled4 ==
    /\ last.op = "getDeviceData"
    /\ last.out.k = "resolve"
    /\ last.out.v # Null
    /\ DOMAIN last.out.v.raw # {}

(* the device answered the read of the value of one channel at least *)
DeviceAnswered == \E i \in 1..Len(ValueReads) : ValueReads[i].r.st = "YE_OK"

(* C19: on a new session with a configuration path that is a string,        *)
(* initialize resolves to true when a driver is enumerated and goes online; *)
(* after it detectDevices(1) makes its request and resolves to true when    *)
(* the native layer reports success; after it getDevices resolves to a list *)
(* of one element when the native layer holds one device; after it          *)
(* getDeviceData of the handle listed enumerates the channels and resolves  *)
(* to a mapping with a channel when the device answers; after it shutdown   *)
(* resolves to true.                                                        *)
C19_UsageExample ==
    [][ /\ (last.op = "new" /\ last'.op = "initialize" /\ IsString(configPath)) =>
              /\ last'.calls # <<>>
              /\ (DriversEnumerated' /\ DriverSetOnline') => Initialized1'
        /\ (Initialized1 /\ last'.op = "detectDevices"
                /\ last'.args.count \in {Undefined, Num(1)}) =>
              /\ Len(Detections') = 1
              /\ Detections'[1].a = <<1, TRUE>>
              /\ Detections'[1].r = "YE_OK" => Detected2'
        /\ (Detected2 /\ last'.op = "getDevices" /\ Len(yasdi.devices) = 1) =>
              /\ Listed3'
              /\ last'.out.v[1].handle = yasdi.devices[1].handle
        /\ (Listed3 /\ last'.op = "getDeviceData"
                /\ last'.args.dev = Num(last.out.v[1].handle)) =>
              /\ Len(Enumerations') = 1
              /\ Enumerations'[1].a = << last.out.v[1].handle, "SPOTCHANNELS" >>
              /\ DeviceAnswered' => Polled4'
        /\ (Polled4 /\ last'.op = "shutdown") =>
              /\ last'.out = Resolve(TRUE)
              /\ ~initialized'
      ]_vars

(* the data of the one device listed, polled by its handle *)
C19_Witness ==
    /\ Polled4
    /\ last.args.dev = Num(1)
    /\ Len(yasdi.devices) = 1
    /\ DOMAIN deviceMap = { <<"W", "_", "R">> }
    /\ deviceMap[<<"W", "_", "R">>] = 1
    /\ last.calls[1].f = "GetChannelHandlesEx"

----------------------------------------------------------------------------
(* Native calls in flight *)

(* the calls of the binding that have not returned *)
InFlight == { i \in 1..Len(pending) : pending[i].stage = "native" }

(* the step is the return of the call that pending[i] is inside *)
Returns(i) ==
    /\ pending' = RemoveAt(pending, i)
    /\ last'.op = pending[i].op
    /\ last'.args = pending[i].args

(* C20: whatever operations the caller starts while others are suspended,   *)
(* at most one call of the binding, a detection or a channel operation, is  *)
(* in flight, and while it is in flight the only step of the session is its *)
(* return: no other operation reaches the native layer before.              *)
C20_OneNativeCallInFlight ==
    [][ /\ Cardinality(InFlight) <= 1
        /\ Cardinality(InFlight') <= 1
        /\ \A i \in InFlight : Returns(i)
      ]_vars

(* a detection is in flight while a channel operation by name is suspended  *)
C20_Witness ==
    /\ Len(pending) = 2
    /\ pending[1].stage = "refreshed"
    /\ pending[2].stage = "native"
    /\ pending[2].op = "detectDevices"

----------------------------------------------------------------------------
(* Arguments that are not what the operation expects *)

(* the handle, the channel name or the value of a channel operation is      *)
(* missing or of the wrong type (a device given as a string is a name), or  *)
(* the count of a detection is given and is not a number                    *)
Malformed ==
    CASE last.op = "getDeviceData" ->
            ~IsNumber(last.args.dev) /\ ~IsString(last.args.dev)
      [] last.op = "getChannelInfo" ->
            \/ ~IsNumber(last.args.dev) /\ ~IsString(last.args.dev)
            \/ ~IsString(last.args.chan)
      [] last.op = "setChannelValue" ->
            \/ ~IsNumber(last.args.dev) /\ ~IsString(last.args.dev)
            \/ ~IsString(last.args.chan)
            \/ ~IsNumber(last.args.value)
      [] last.op = "detectDevices" ->
            last.args.count # Undefined /\ ~IsNumber(last.args.count)
      [] OTHER -> FALSE

(* the outcome tells the caller that an argument was wrong: a rejection, or *)
(* the {success: false, error} of a write with the message of the type      *)
(* error                                                                    *)
TellsArgumentError ==
    \/ last.out.k = "reject"
    \/ /\ last.op = "setChannelValue"
       /\ last.out.v.success = FALSE
       /\ last.logged.k = "throw"
       /\ last.logged.type = "TypeError"
       /\ last.out.v.error = last.logged.message

(* C21: an operation called on an initialized session with a malformed      *)
(* argument makes no native call, with that argument or with another in its *)
(* place, and its outcome tells the caller that an argument was wrong.      *)
C21_ArgumentErrorsSurface ==
    (last.op \in DeviceOperations /\ last.was /\ Malformed) =>
        /\ last.calls = <<>>
        /\ TellsArgumentError

----------------------------------------------------------------------------
(* The failing profile: every status of a detection and of a write, reads   *)
(* of a channel that fail, a range that cannot be read, handles and names   *)
(* of devices that do not exist, arguments of the wrong type                *)
Failing ==
    [overlap |-> FALSE,
     until |-> {},
     counts |-> {0, 1},
     counted |-> {Undefined, Num(2), Str(<<"2">>)},
     detected |-> DetectStatuses,
     tables |-> { <<>>, << [handle |-> 1, name |-> <<"W", " ", "R">>] >> },
     devices |-> {Num(1), Num(2), Str(<<"W", "_", "R">>), Str(<<"W", "R">>), Undefined},
     named |-> {Str(ChannelNames[1]), Str(ChannelNames[2]), Undefined},
     values |-> {Num(1), Num(3), Undefined},
     chans |-> ChannelTables(1, BOOLEAN, ReadAny, ReadOk, ValueAny),
     ranges |-> {NoRange} \cup Ranges({1}, {2}),
     written |-> WriteStatuses,
     units0 |-> {""}]

NextFail == Operations(Failing)

SpecFail == Init /\ [][NextFail]_vars

----------------------------------------------------------------------------
(* The debug level *)

AtLevel(l) == [wrapper EXCEPT !.debug_level = l]

(* two runs of a method of the binding return the same, make the same       *)
(* native calls and leave the same state behind, the debug level aside      *)
SameRun(r, q) ==
    /\ r.out = q.out
    /\ r.calls = q.calls
    /\ r.y = q.y
    /\ [r.w EXCEPT !.debug_level = 0] = [q.w EXCEPT !.debug_level = 0]
    /\ r.w.debug_level = wrapper.debug_level

(* C22: in every state a session reaches, each method of the binding, for   *)
(* each argument and each response of the native layer, returns the same    *)
(* outcome, makes the same native calls and leaves the same state at every  *)
(* debug level as at the level of the session, which it keeps; at level 0   *)
(* it narrates nothing.  The facade reads no debug level after its          *)
(* construction, so that two sessions that differ in it only stay in step,  *)
(* operation by operation.                                                  *)
C22_DebugLevelNoEffect ==
    \A l \in DebugLevels :
        /\ \A n \in Narrating.counts, ok \in Flags :
              /\ SameRun(Initialize(wrapper, yasdi, configPath, n, ok),
                         Initialize(AtLevel(l), yasdi, configPath, n, ok))
              /\ InitializeTold(AtLevel(0), configPath, n, ok) = <<>>
        /\ \A off \in Flags :
              SameRun(Shutdown(wrapper, yasdi, off),
                      Shutdown(AtLevel(l), yasdi, off))
        /\ \A given \in Narrating.counted \ {Undefined},
                status \in Narrating.detected, found \in Narrating.tables :
              /\ SameRun(DetectDevices(wrapper, yasdi, given, status, found),
                         DetectDevices(AtLevel(l), yasdi, given, status, found))
              /\ DetectDevices(wrapper, yasdi, given, status, found).said =
                    DetectDevices(AtLevel(l), yasdi, given, status, found).said
              /\ DetectDevicesTold(AtLevel(0), given, status) = <<>>
        /\ SameRun(GetDevices(wrapper, yasdi),
                   GetDevices(AtLevel(l), yasdi))
        /\ GetDevicesTold(AtLevel(0), yasdi) = <<>>
        /\ \A dev \in { d \in Narrating.devices : ~IsString(d) },
                chans \in Narrating.chans :
              /\ SameRun(GetDeviceData(wrapper, yasdi, dev, chans, ""),
                         GetDeviceData(AtLevel(l), yasdi, dev, chans, ""))
              /\ GetDeviceDataTold(AtLevel(0), dev, chans) = <<>>
              /\ \A name \in Narrating.named, range \in Narrating.ranges :
                    /\ SameRun(GetChannelInfo(wrapper, yasdi, dev, name, chans, range, ""),
                               GetChannelInfo(AtLevel(l), yasdi, dev, name, chans, range, ""))
                    /\ GetChannelInfoTold(AtLevel(0), dev, name, chans, range) = <<>>
                    /\ \A value \in Narrating.values, set_result \in Narrating.written :
                          /\ SameRun(SetChannelValue(wrapper, yasdi, dev, name, value,
                                                     chans, range, set_result),
                                     SetChannelValue(AtLevel(l), yasdi, dev, name, value,
                                                      chans, range, set_result))
                          /\ SetChannelValueTold(AtLevel(0), dev, name, value,
                                                 chans, range, set_result) = <<>>

(* a session of debug level 1 has polled a device by its handle, a value    *)
(* was not read, and the binding narrated it                                *)
C22_Witness ==
    /\ wrapper.debug_level = 1
    /\ Completed("getDeviceData")
    /\ last.was
    /\ last.args.dev = Num(1)
    /\ \E chans \in Narrating.chans :
          /\ GetDeviceData(wrapper, yasdi, Num(1), chans, "").calls = last.calls
          /\ GetDeviceDataTold(wrapper, Num(1), chans) =
                <<"Error reading channel value for channel">>
          /\ GetDeviceDataTold(AtLevel(0), Num(1), chans) = <<>>

----------------------------------------------------------------------------
(* The teardown of the master layer *)

Teardowns(calls) == CallsTo(calls, "yasdiMasterShutdown")

(* C23: the destruction of a binding that is initialized sets each driver   *)
(* it knows offline, in turn, then shuts the master layer down, once; the   *)
(* destruction of a binding that is not (shutdown ran, or no initialize     *)
(* succeeded) makes no native call.  No operation shuts the master layer    *)
(* down while it is down, and only shutdown and the destruction shut it     *)
(* down.                                                                    *)
C23_DestructionTearsDownOnce ==
    [][ /\ last'.op = "destroy" =>
              IF wrapper.initialized
              THEN /\ Len(last'.calls) = wrapper.driver_count + 1
                   /\ \A i \in 1..wrapper.driver_count :
                         /\ last'.calls[i].f = "yasdiSetDriverOffline"
                         /\ last'.calls[i].a = << wrapper.drivers[i] >>
                   /\ last'.calls[Len(last'.calls)].f = "yasdiMasterShutdown"
                   /\ ~yasdi'.up
              ELSE /\ last'.calls = <<>>
                   /\ yasdi' = yasdi
        /\ (last'.op # "await" /\ Teardowns(last'.calls) # <<>>) =>
              /\ Len(Teardowns(last'.calls)) = 1
              /\ last'.op \in {"shutdown", "destroy"}
              /\ wrapper.initialized
              /\ yasdi.up
              /\ ~yasdi'.up
      ]_vars

(* a session that was never shut down is destroyed: two drivers are set     *)
(* offline and the master layer is shut down                                *)
C23_Witness ==
    /\ Completed("destroy")
    /\ last.was
    /\ Len(last.calls) = 3
    /\ ~yasdi.up

----------------------------------------------------------------------------
(* The name-to-handle cache of the facade *)

(* the devices that the getDevices call just completed returned *)
Returned == { last.out.v[i] : i \in 1..Len(last.out.v) }

(* C24: after a getDevices call that returned the list of the binding, the  *)
(* cache holds the names of the devices returned, each with the handle      *)
(* returned, and no other name.                                             *)
C24_CacheIsLastEnumeration ==
    (Completed("getDevices") /\ last.was /\ last.logged = NoError) =>
        /\ DOMAIN deviceMap = { d.name : d \in Returned }
        /\ \A d \in Returned : \E e \in Returned :
              e.name = d.name /\ deviceMap[d.name] = e.handle

(* the operation completed last began a session: an initialize that         *)
(* succeeded on a session that was not initialized                          *)
SessionBegan ==
    /\ last.op = "initialize"
    /\ ~last.was
    /\ last.out = Resolve(TRUE)

(* C25: when the first operation of a session resolves a device name       *)
(* (_resolveDeviceHandle), it takes no handle from the cache as the         *)
(* previous session left it: it resolves the name through a getDevices      *)
(* call of its own.                                                         *)
C25_HandlesSessionScoped ==
    [][ (SessionBegan /\ Awaits) =>
            /\ Awaited.stage = "refreshed"
            /\ Len(Refreshes(Awaited.calls)) = 1
      ]_vars

----------------------------------------------------------------------------
(* The units of a poll *)

UnitReads == CallsTo(last.calls, "GetChannelUnit")

(* what the name read and the value read of the channel of handle h gave *)
NameReadOf(h) == NameReads[CHOOSE i \in 1..Len(NameReads) : NameReads[i].a[1] = h].r
ValueReadOf(h) == ValueReads[CHOOSE i \in 1..Len(ValueReads) : ValueReads[i].a[1] = h].r

(* C26: in the mapping a poll resolves to, a channel whose name and value   *)
(* were read and whose unit was not has the empty string for its unit.      *)
C26_FailedUnitIsEmpty ==
    (Completed("getDeviceData") /\ last.was /\ last.out.k = "resolve"
        /\ last.out.v # Null) =>
        \A i \in 1..Len(UnitReads) :
            LET h == UnitReads[i].a[1]
            IN  (UnitReads[i].r.st # "YE_OK" /\ NameReadOf(h).st = "YE_OK"
                    /\ ValueReadOf(h).st = "YE_OK") =>
                    last.out.v.raw[NameReadOf(h).name].units = ""

----------------------------------------------------------------------------
(* Operations overtaken by a shutdown *)

(* the outcome of the operation just completed is a failure *)
Failed ==
    \/ last.out.k = "reject"
    \/ CASE last.op \in {"getDeviceData", "getChannelInfo"} -> last.out.v = Null
          [] last.op = "setChannelValue" -> last.out.v.success = FALSE
          [] last.op = "detectDevices" -> last.out.v = FALSE
          [] last.op = "getDevices" -> last.out.v = <<>>
          [] OTHER -> FALSE

(* C27: in a step taken while the master layer is down, a device or channel *)
(* operation issues no native call: one that completes has in its log the   *)
(* calls it made before it was suspended and no other, and its outcome is a *)
(* failure; one that is suspended, or stays suspended, has made no call in  *)
(* the step.  The native layer is left as it is.                            *)
C27_NoNativeCallAfterTeardown ==
    [][ (~yasdi.up /\ last'.op # "initialize") =>
            /\ yasdi' = yasdi
            /\ last'.op \in DeviceOperations =>
                  /\ Failed'
                  /\ \/ /\ pending' = pending
                        /\ last'.calls = <<>>
                     \/ \E i \in 1..Len(pending) :
                          /\ Returns(i)
                          /\ last'.calls = pending[i].calls
            /\ \A j \in 1..Len(pending') :
                  \/ pending'[j].calls = <<>>
                  \/ \E i \in 1..Len(pending) : pending[i].calls = pending'[j].calls
      ]_vars

(* a getChannelInfo by device name refreshed the cache and was suspended,   *)
(* a shutdown ran, and the operation ended with null: the binding refused   *)
(* the call                                                                 *)
C27_Witness ==
    /\ Completed("getChannelInfo")
    /\ IsString(last.args.dev)
    /\ ~yasdi.up
    /\ ~wrapper.initialized
    /\ last.out = Resolve(Null)
    /\ last.logged = NotInitialized
    /\ Len(Refreshes(last.calls)) = 1
    /\ Len(last.calls) = 2

----------------------------------------------------------------------------
(* The two initialized flags *)

(* C28: the initialized flag of the facade equals the initialized member of *)
(* the binding in every state, the states in which operations are suspended *)
(* included; both are false in a new session.                               *)
C28_FlagsAgree ==
    /\ initialized = wrapper.initialized
    /\ last.op = "new" => ~initialized /\ ~wrapper.initialized

(* an initialize on an initialized session failed: both flags stay true *)
C28_Witness ==
    /\ Completed("initialize")
    /\ last.was
    /\ last.out = Resolve(FALSE)
    /\ last.logged = NoDriversFound
    /\ initialized
    /\ wrapper.initialized

----------------------------------------------------------------------------
(* The lifetime of the master layer *)

(* C29: when no operation is suspended, the master layer is up only if the  *)
(* session is initialized; an initialize that resolves to false on a        *)
(* session that was not initialized leaves the master layer down.           *)
C29_MasterUpOnlyIfInitialized ==
    pending = <<>> =>
        /\ yasdi.up => initialized
        /\ (Completed("initialize") /\ ~last.was /\ last.out = Resolve(FALSE)) =>
              ~yasdi.up

(* C30: when a shutdown has resolved to true, a yasdiSetDriverOffline call  *)
(* was made, after the last call that set it online, for every driver that  *)
(* a yasdiSetDriverOnline call set online.                                  *)
C30_OnlineDriversSetOffline ==
    (Completed("shutdown") /\ last.out = Resolve(TRUE)) => yasdi.owed = {}

----------------------------------------------------------------------------
(* The result shape of the facade *)

FacadeOperations == DeviceOperations \cup {"initialize", "shutdown"}

TakesDevice == last.op \in {"getDeviceData", "getChannelInfo", "setChannelValue"}

(* the operation takes no device, or was called with a numeric handle *)
ByHandle == TakesDevice => IsNumber(last.args.dev)

(* the value an operation resolves with when the binding threw *)
FailureValue ==
    CASE last.op \in {"initialize", "detectDevices", "shutdown"} ->
            last.out = Resolve(FALSE)
      [] last.op = "getDevices" -> last.out = Resolve(<<>>)
      [] last.op \in {"getDeviceData", "getChannelInfo"} -> last.out = Resolve(Null)
      [] last.op = "setChannelValue" ->
            /\ last.out.k = "resolve"
            /\ last.out.v = [success |-> FALSE, error |-> last.logged.message,
                             code |-> "-1"]

(* C31: initialize and shutdown always resolve, and so does every operation *)
(* on devices called on an initialized session with a numeric handle or     *)
(* with no device at all; when the binding threw, the value is false, an    *)
(* empty list, null or {success: false, error, code}.  An operation rejects *)
(* only with the not-initialized error, when the session was not            *)
(* initialized, or with the device-not-found error, when it was given a     *)
(* device name that the device map does not hold after the refresh.         *)
C31_StableResultShape ==
    last.op \in FacadeOperations =>
        /\ (last.op \in {"initialize", "shutdown"} \/ (last.was /\ ByHandle)) =>
              /\ last.out.k = "resolve"
              /\ last.logged.k = "throw" => FailureValue
        /\ last.out.k = "reject" =>
              \/ /\ last.op \in DeviceOperations
                 /\ ~last.was
                 /\ last.out = Reject("SDK not initialized. Call initialize() first")
              \/ /\ TakesDevice
                 /\ last.was
                 /\ IsString(last.args.dev)
                 /\ last.args.dev.s \notin DOMAIN deviceMap
                 /\ last.out = Reject("Device with name not found")

(* a channel looked up by handle on an initialized session is not found,    *)
(* after the native layer was asked for the channels: the binding throws,   *)
(* the facade logs it and resolves with null                                *)
C31_Witness ==
    /\ last.op = "getChannelInfo"
    /\ last.was
    /\ IsNumber(last.args.dev)
    /\ last.calls # <<>>
    /\ last.logged.k = "throw"
    /\ last.out = Resolve(Null)

====
